---- MODULE Spec2Model ----
(***************************************************************************)
(* A model of dfc, the Dockerfile converter (pkg/dfc/dfc.go).              *)
(*                                                                         *)
(* Text is modelled as a sequence of tokens.  A token is either one of the *)
(* characters the code inspects on its own (newline, space, backslash, #,  *)
(* :, @, $, {, }, /, ., -, =, the shell operators) or a run of other       *)
(* characters (a word) that contains none of them.  The Go string          *)
(* functions (TrimSpace, HasPrefix, Split, Index, ToUpper ...) are         *)
(* computed on these sequences the way the Go library computes them on     *)
(* bytes.  A nil pointer is the empty sequence, a non-nil pointer a        *)
(* sequence holding the one record it points to.                           *)
(***************************************************************************)
EXTENDS Integers, Sequences, FiniteSets, TLC

VARIABLES
    pc,          \* position of the driver: which operation comes next
    content,     \* the text handed to ParseDockerfile
    opts,        \* the Options handed to Convert
    embeddedDB,     \* the built-in mapping database the process can open (<<>>: none)
    dockerfile,  \* the *Dockerfile returned by ParseDockerfile (the receiver d of Convert)
    parsed,      \* the value of dockerfile right after ParseDockerfile returned
    printed,     \* d.String() of the unconverted dockerfile
    converted,   \* the *Dockerfile returned by Convert (<<>> while there is none)
    convErr,     \* the error returned by Convert (<<>> is nil)
    lookupErrs,  \* number of MappingProvider calls of the last Convert that returned an error
    result,      \* converted.String()
    prevResult,  \* result of the conversion round before this one
    round,       \* number of the conversion round
    callArgs,    \* the arguments of a function that is called on its own (<<>>: none)
    callResults, \* what its successive calls returned
    cache        \* the files of the cache and config directories of the mappings update

vars == <<pc, content, opts, embeddedDB, dockerfile, parsed, printed, converted, convErr,
          lookupErrs, result, prevResult, round, callArgs, callResults, cache>>

-----------------------------------------------------------------------------
(* Go's strings package on token sequences *)

Whitespace == {" ", "\t", "\n", "\r"}

RECURSIVE TrimLeft(_)
TrimLeft(s) ==
    IF s # <<>> /\ Head(s) \in Whitespace THEN TrimLeft(Tail(s)) ELSE s

RECURSIVE TrimRight(_)
TrimRight(s) ==
    IF s # <<>> /\ s[Len(s)] \in Whitespace
    THEN TrimRight(SubSeq(s, 1, Len(s) - 1))
    ELSE s

TrimSpace(s) == TrimRight(TrimLeft(s))

HasPrefix(s, p) == Len(s) >= Len(p) /\ SubSeq(s, 1, Len(p)) = p

HasSuffix(s, p) == Len(s) >= Len(p) /\ SubSeq(s, Len(s) - Len(p) + 1, Len(s)) = p

TrimSuffix(s, p) == IF HasSuffix(s, p) THEN SubSeq(s, 1, Len(s) - Len(p)) ELSE s

\* the least element of a set of positions, 0 when there is none
MinOrZero(S) == IF S = {} THEN 0 ELSE CHOOSE m \in S : \A n \in S : m <= n

\* strings.Index, 1-based; 0 when sub does not occur (Go's -1)
Index(s, sub) ==
    MinOrZero({i \in 1..(Len(s) - Len(sub) + 1) : SubSeq(s, i, i + Len(sub) - 1) = sub})

Contains(s, sub) == Index(s, sub) # 0

\* strings.Split(s, sep) for a non-empty separator
RECURSIVE Split(_, _)
Split(s, sep) ==
    LET SplitAt(i) ==
            IF i = 0
            THEN <<s>>
            ELSE <<SubSeq(s, 1, i - 1)>> \o Split(SubSeq(s, i + Len(sep), Len(s)), sep)
    IN  SplitAt(Index(s, sep))

\* strings.SplitN(s, sep, 2)
SplitN2(s, sep) ==
    LET SplitN2At(i) ==
            IF i = 0
            THEN <<s>>
            ELSE <<SubSeq(s, 1, i - 1), SubSeq(s, i + Len(sep), Len(s))>>
    IN  SplitN2At(Index(s, sep))

\* strings.Join
RECURSIVE Join(_, _)
Join(ss, sep) ==
    IF ss = <<>> THEN <<>>
    ELSE IF Len(ss) = 1 THEN ss[1]
    ELSE ss[1] \o sep \o Join(Tail(ss), sep)

\* Case mapping of the words of the alphabet that have letters in two cases;
\* every other word of the alphabet is written in lower case or has no letters,
\* except the upper-case names below, which only ToLower changes.
ToUpper(s) ==
    LET UpperTok(t) ==
            CASE t = "from" -> "FROM"
              [] t = "run" -> "RUN"
              [] t = "arg" -> "ARG"
              [] t = "user" -> "USER"
              [] t = "as" -> "AS"
              [] t = "As" -> "AS"
              [] t = "build" -> "BUILD"
              [] t = "Build" -> "BUILD"
              [] t = "root" -> "ROOT"
              [] t = "Root" -> "ROOT"
              [] t = "nonroot" -> "NONROOT"
              [] OTHER -> t
    IN  [i \in 1..Len(s) |-> UpperTok(s[i])]

ToLower(s) ==
    LET LowerTok(t) ==
            CASE t = "FROM" -> "from"
              [] t = "RUN" -> "run"
              [] t = "ARG" -> "arg"
              [] t = "USER" -> "user"
              [] t = "AS" -> "as"
              [] t = "As" -> "as"
              [] t = "Build" -> "build"
              [] t = "BUILD" -> "build"
              [] t = "Root" -> "root"
              [] t = "ROOT" -> "root"
              [] t = "BASE" -> "base"
              [] t = "TAG" -> "tag"
              [] t = "ORG" -> "org"
              [] OTHER -> t
    IN  [i \in 1..Len(s) |-> LowerTok(s[i])]

-----------------------------------------------------------------------------
(* Constants of dfc.go *)

DirectiveFrom == <<"FROM">>
DirectiveRun == <<"RUN">>
DirectiveUser == <<"USER">>
DirectiveArg == <<"ARG">>
KeywordAs == <<"AS">>

DefaultRegistryDomain == <<"cgr", ".", "dev">>
DefaultImageTag == <<"latest", "-", "dev">>
DefaultOrg == <<"ORG">>
DefaultChainguardBase == <<"chainguard", "-", "base">>

\* the words that hold the characters "root" (DefaultUser) once lower-cased
DefaultUserWords == {"root", "nonroot"}

CommandUserAdd == <<"useradd">>
CommandAddUser == <<"adduser">>
CommandGroupAdd == <<"groupadd">>
CommandAddGroup == <<"addgroup">>
CommandGNUTar == <<"tar">>
PackageShadow == <<"shadow">>

ManagerAptGet == <<"apt", "-", "get">>
ManagerApt == <<"apt">>
ManagerYum == <<"yum">>
ManagerDnf == <<"dnf">>
ManagerMicrodnf == <<"microdnf">>
ManagerApk == <<"apk">>

SubcommandInstall == <<"install">>
SubcommandAdd == <<"add">>

\* PackageManagerInfoMap; a missing key gives Go's zero value
PackageManagerInfoMap(m) ==
    CASE m \in {ManagerAptGet, ManagerApt} ->
            [Distro |-> <<"debian">>, InstallKeyword |-> SubcommandInstall]
      [] m \in {ManagerYum, ManagerDnf, ManagerMicrodnf} ->
            [Distro |-> <<"fedora">>, InstallKeyword |-> SubcommandInstall]
      [] m = ManagerApk ->
            [Distro |-> <<"alpine">>, InstallKeyword |-> SubcommandAdd]
      [] OTHER -> [Distro |-> <<>>, InstallKeyword |-> <<>>]

-----------------------------------------------------------------------------
(* The data model *)

NoFrom == <<>>
NoRun == <<>>
NoArg == <<>>

\* a DockerfileLine with only Raw set (Go's zero value elsewhere)
RawLine(raw) ==
    [Raw |-> raw, Converted |-> <<>>, Extra |-> <<>>, Stage |-> 0,
     From |-> NoFrom, Run |-> NoRun, Arg |-> NoArg]

ShellPart(extraPre, command, args, delimiter) ==
    [ExtraPre |-> extraPre, Command |-> command, Args |-> args,
     Delimiter |-> delimiter, Value |-> <<>>]

\* &ShellPart{Value: v}
ValuePart(v) ==
    [ExtraPre |-> <<>>, Command |-> <<>>, Args |-> <<>>, Delimiter |-> <<>>, Value |-> v]

-----------------------------------------------------------------------------
(* The shell parser and printer (shell.go) *)

ShellDelimiters == {"&&", "||", ";", "|", "&"}

\* white space between the words of a command; a backslash is the start of a
\* line continuation (backslash, newline)
ShellBlank == {" ", "\t", "\n", "\\"}

\* ParseMultilineShell: the commands of a shell text, split at the operators.
\* LeadingBlank is the white space before a command, Fields its words;
\* MakePart makes one part from the text before an operator and the operator,
\* no part when the text has no word.
ParseMultilineShell(s) ==
    LET RECURSIVE LeadingBlank(_), FirstWord(_), Fields(_), ParseParts(_)
        LeadingBlank(x) ==
            IF x # <<>> /\ Head(x) \in ShellBlank
            THEN <<Head(x)>> \o LeadingBlank(Tail(x))
            ELSE <<>>
        FirstWord(x) ==
            IF x = <<>> \/ Head(x) \in ShellBlank
            THEN <<>>
            ELSE <<Head(x)>> \o FirstWord(Tail(x))
        FieldsFrom(rest, w) ==
            IF rest = <<>> THEN <<>> ELSE <<w>> \o Fields(SubSeq(rest, Len(w) + 1, Len(rest)))
        FieldsAfterBlank(rest) == FieldsFrom(rest, FirstWord(rest))
        Fields(x) == FieldsAfterBlank(SubSeq(x, Len(LeadingBlank(x)) + 1, Len(x)))
        FirstDelimiter(x) == MinOrZero({i \in 1..Len(x) : x[i] \in ShellDelimiters})
        MakePart(seg, words, delimiter) ==
            IF words = <<>> THEN <<>>
            ELSE <<ShellPart(LeadingBlank(seg), words[1], Tail(words), delimiter)>>
        ParsePartsAt(x, i) ==
            IF i = 0 THEN MakePart(x, Fields(x), <<>>)
            ELSE MakePart(SubSeq(x, 1, i - 1), Fields(SubSeq(x, 1, i - 1)), <<x[i]>>)
                 \o ParseParts(SubSeq(x, i + 1, Len(x)))
        ParseParts(x) == ParsePartsAt(x, FirstDelimiter(x))
    IN  [Parts |-> ParseParts(s)]

\* ShellCommand.String: one command a line, joined by " \", newline, four spaces
ShellCommandString(cmd) ==
    LET PartString(part) ==
            part.Command
            \o Join([i \in 1..Len(part.Args) |-> <<" ">> \o part.Args[i]], <<>>)
            \o (IF part.Delimiter # <<>> THEN <<" ">> \o part.Delimiter ELSE <<>>)
    IN
    Join([i \in 1..Len(cmd.Parts) |-> PartString(cmd.Parts[i])],
         <<" ", "\\", "\n", " ", " ", " ", " ">>)

-----------------------------------------------------------------------------
(* ParseDockerfile *)

\* The FROM payload of a trimmed instruction and the alias table after it.
\* FromDetails is the struct of an image reference split into its parts, the
\* parent looked up in the alias table; FromOfTagParts is the check for a tag,
\* FromOfDigestParts the check for a digest, ParseFromPart the check for an AS
\* clause at position asIndex (0: there is none), which stores the alias in the
\* table (stageAliases[strings.ToLower(alias)] = currentStage).
ParseFrom(trimmedInstruction, currentStage, stageAliases) ==
    LET AsKeywordWithSpaces == <<" ">> \o KeywordAs \o <<" ">>
        FromDetails(base, tag, digest, alias, origImageRef, aliases) ==
            [Base |-> base, Tag |-> tag, Digest |-> digest, Alias |-> alias,
             Parent |-> IF ToLower(base) \in DOMAIN aliases
                        THEN aliases[ToLower(base)] ELSE 0,
             BaseDynamic |-> Contains(base, <<"$">>),
             TagDynamic |-> Contains(tag, <<"$">>),
             Orig |-> origImageRef]
        FromOfTagParts(tagParts, fromPart, digest, alias, origImageRef, aliases) ==
            IF Len(tagParts) > 1
            THEN FromDetails(tagParts[1], tagParts[2], digest, alias, origImageRef, aliases)
            ELSE FromDetails(fromPart, <<>>, digest, alias, origImageRef, aliases)
        FromOfDigestParts(digestParts, fromPart, alias, origImageRef, aliases) ==
            IF Len(digestParts) > 1
            THEN FromOfTagParts(Split(digestParts[1], <<":">>), digestParts[1],
                                digestParts[2], alias, origImageRef, aliases)
            ELSE FromOfTagParts(Split(fromPart, <<":">>), fromPart, <<>>, alias,
                                origImageRef, aliases)
        FromOfImage(fromPart, alias, aliases) ==
            [From |-> FromOfDigestParts(Split(fromPart, <<"@">>), fromPart, alias,
                                        fromPart, aliases),
             stageAliases |-> aliases]
        SetAlias(aliases, alias) ==
            [a \in DOMAIN aliases \cup {ToLower(alias)} |->
                IF a = ToLower(alias) THEN currentStage ELSE aliases[a]]
        ParseFromPart(fromPart, asIndex) ==
            IF asIndex # 0
            THEN FromOfImage(TrimSpace(SubSeq(fromPart, 1, asIndex - 1)),
                             TrimSpace(SubSeq(fromPart, asIndex + Len(AsKeywordWithSpaces),
                                              Len(fromPart))),
                             SetAlias(stageAliases,
                                      TrimSpace(SubSeq(fromPart,
                                                       asIndex + Len(AsKeywordWithSpaces),
                                                       Len(fromPart)))))
            ELSE FromOfImage(fromPart, <<>>, stageAliases)
        ParseFromPayload(fromPart) ==
            ParseFromPart(fromPart, Index(ToUpper(fromPart), AsKeywordWithSpaces))
    IN  ParseFromPayload(TrimSpace(SubSeq(trimmedInstruction, Len(DirectiveFrom) + 2,
                                          Len(trimmedInstruction))))

\* the ArgDetails of a trimmed ARG instruction
ParseArg(trimmedInstruction) ==
    LET ArgOfParts(parts, argPart) ==
            IF Len(parts) > 1
            THEN [Name |-> TrimSpace(parts[1]), DefaultValue |-> TrimSpace(parts[2]),
                  UsedAsBase |-> FALSE]
            ELSE [Name |-> argPart, DefaultValue |-> <<>>, UsedAsBase |-> FALSE]
        ArgOfPayload(argPart) == ArgOfParts(SplitN2(argPart, <<"=">>), argPart)
    IN  ArgOfPayload(TrimSpace(SubSeq(trimmedInstruction, Len(DirectiveArg) + 2,
                                      Len(trimmedInstruction))))

\* the RunDetails of a trimmed RUN instruction
ParseRun(trimmedInstruction) ==
    [Distro |-> <<>>, Manager |-> <<>>, Packages |-> <<>>,
     Shell |-> <<[Before |-> <<ParseMultilineShell(
                                  TrimSpace(SubSeq(trimmedInstruction, Len(DirectiveRun) + 2,
                                                   Len(trimmedInstruction))))>>,
                  After |-> <<>>]>>]

\* processCurrentInstruction on the state st of the parser's loop.  EmitLine is
\* dockerfile.Lines = append(dockerfile.Lines, dockerfileLine) and the resets;
\* a FROM instruction opens the next stage.
processCurrentInstruction(st) ==
    LET EmitLine(s, line) ==
            [s EXCEPT !.Lines = Append(@, line), !.currentInstruction = <<>>,
                      !.extraContent = <<>>]
        EmitFrom(from) ==
            EmitLine([st EXCEPT !.currentStage = @ + 1, !.stageAliases = from.stageAliases],
                     [Raw |-> st.currentInstruction, Converted |-> <<>>,
                      Extra |-> st.extraContent, Stage |-> st.currentStage + 1,
                      From |-> <<from.From>>, Run |-> NoRun, Arg |-> NoArg])
        ProcessInstruction(trimmedInstruction, upperInstruction) ==
            IF HasPrefix(upperInstruction, DirectiveFrom \o <<" ">>)
            THEN EmitFrom(ParseFrom(trimmedInstruction, st.currentStage + 1, st.stageAliases))
            ELSE EmitLine(st,
                          [Raw |-> st.currentInstruction, Converted |-> <<>>,
                           Extra |-> st.extraContent, Stage |-> st.currentStage,
                           From |-> NoFrom,
                           Run |-> IF HasPrefix(upperInstruction, DirectiveRun \o <<" ">>)
                                   THEN <<ParseRun(trimmedInstruction)>> ELSE NoRun,
                           Arg |-> IF HasPrefix(upperInstruction, DirectiveArg \o <<" ">>)
                                   THEN <<ParseArg(trimmedInstruction)>> ELSE NoArg])
        ProcessTrimmed(trimmedInstruction) ==
            ProcessInstruction(trimmedInstruction, ToUpper(trimmedInstruction))
    IN  IF st.currentInstruction = <<>> THEN st
        ELSE ProcessTrimmed(TrimSpace(st.currentInstruction))

\* ParseDockerfile: the Lines of the Dockerfile it returns (it returns no
\* error).  ParserStart is the state of the loop before the first line,
\* ParseTrimmedLine the body of the loop over the lines of the content,
\* FlushInstruction the instruction the content ends in the middle of,
\* TrailingLines the comments and blank lines after the last instruction.
ParseDockerfile(text) ==
    LET RECURSIVE ParseLines(_, _)
        ParserStart ==
            [Lines |-> <<>>, extraContent |-> <<>>, currentInstruction |-> <<>>,
             inMultilineInstruction |-> FALSE, currentStage |-> 0, stageAliases |-> <<>>]
        ParseTrimmedLine(st, line, trimmedLine) ==
            IF trimmedLine = <<>> \/ HasPrefix(trimmedLine, <<"#">>)
            THEN IF ~st.inMultilineInstruction
                 THEN [st EXCEPT !.extraContent = @ \o line \o <<"\n">>]
                 ELSE st
            ELSE IF HasSuffix(trimmedLine, <<"\\">>)
            THEN [st EXCEPT !.inMultilineInstruction = TRUE,
                            !.currentInstruction = @ \o line \o <<"\n">>]
            ELSE processCurrentInstruction([st EXCEPT !.currentInstruction = @ \o line,
                                                      !.inMultilineInstruction = FALSE])
        ParseLine(st, line) == ParseTrimmedLine(st, line, TrimSpace(line))
        ParseLines(st, lines) ==
            IF lines = <<>> THEN st ELSE ParseLines(ParseLine(st, Head(lines)), Tail(lines))
        FlushInstruction(st) ==
            IF st.inMultilineInstruction THEN processCurrentInstruction(st) ELSE st
        TrailingLines(st) ==
            IF st.extraContent # <<>>
            THEN Append(st.Lines, RawLine(TrimSuffix(st.extraContent, <<"\n">>)))
            ELSE st.Lines
    IN  TrailingLines(FlushInstruction(ParseLines(ParserStart, Split(text, <<"\n">>))))

-----------------------------------------------------------------------------
(* Dockerfile.String *)

LineString(line, isLast) ==
    line.Extra
    \o (IF line.Converted # <<>> THEN line.Converted \o <<"\n">>
        ELSE IF line.Raw # <<>> THEN line.Raw \o (IF ~isLast THEN <<"\n">> ELSE <<>>)
        ELSE <<>>)

DockerfileString(lines) ==
    Join([i \in 1..Len(lines) |-> LineString(lines[i], i = Len(lines))], <<>>)

-----------------------------------------------------------------------------
(* Mapping providers *)

\* regexp.MatchString("^" + pattern + "$", s), the pattern being a mapping key
\* in which every "*" was replaced by ".*".  OneCharTokens are the words of the
\* alphabet that are one character long: what a "." of a regular expression
\* matches.
RECURSIVE MatchPattern(_, _)
MatchPattern(pattern, s) ==
    LET OneCharTokens ==
            {" ", ":", "@", "$", "{", "}", "/", ".", "-", "=", ";", "|", "&", "#", "*",
             "+", "v", "0", "1", "2", "3", "8", "9"}
    IN  IF pattern = <<>> THEN s = <<>>
        ELSE IF Head(pattern) = "*"
        THEN \E k \in 0..Len(s) : MatchPattern(Tail(pattern), SubSeq(s, k + 1, Len(s)))
        ELSE IF Head(pattern) = "."
        THEN s # <<>> /\ Head(s) \in OneCharTokens /\ MatchPattern(Tail(pattern), Tail(s))
        ELSE s # <<>> /\ Head(s) = Head(pattern) /\ MatchPattern(Tail(pattern), Tail(s))

\* A catalog: Images is the mapping as the sequence of its (source, target)
\* entries in the order a range over it visits them, Packages the set of
\* (distro, source, targets) entries.  Fails tells which calls fail (a database
\* or a custom provider can fail; an in-memory provider never does).
\* GetImageMapping of one catalog: exact match first, then the wildcard
\* entries; FirstImage is the first of the entries with the positions in hits.
CatalogImageMapping(p, sourceImage) ==
    LET FirstImage(images, hits, otherwise) ==
            IF hits # {}
            THEN [target |-> images[MinOrZero(hits)][2], found |-> TRUE, err |-> FALSE]
            ELSE otherwise
    IN  IF p.Fails \in {"images", "all"}
        THEN [target |-> <<>>, found |-> FALSE, err |-> TRUE]
        ELSE FirstImage(p.Images,
                        {i \in 1..Len(p.Images) : p.Images[i][1] = sourceImage},
                        FirstImage(p.Images,
                                   {i \in 1..Len(p.Images) :
                                       /\ Contains(p.Images[i][1], <<"*">>)
                                       /\ MatchPattern(p.Images[i][1], sourceImage)},
                                   [target |-> <<>>, found |-> FALSE, err |-> FALSE]))

\* GetPackageMappings of one catalog
CatalogPackageMappings(p, distro, sourcePackage) ==
    LET FoundPackages(hits) ==
            IF hits = {} THEN [targets |-> <<>>, found |-> FALSE, err |-> FALSE]
            ELSE [targets |-> (CHOOSE e \in hits : TRUE)[3], found |-> TRUE, err |-> FALSE]
    IN  IF p.Fails \in {"packages", "all"}
        THEN [targets |-> <<>>, found |-> FALSE, err |-> TRUE]
        ELSE FoundPackages({e \in p.Packages :
                              e[1] = distro /\ e[2] = sourcePackage /\ e[3] # <<>>})

\* A MappingProvider is a chain of catalogs (a single provider is a chain of
\* one): the first catalog that fails ends the lookup with its error, the first
\* that finds the source answers.
RECURSIVE GetImageMapping(_, _)
GetImageMapping(providers, sourceImage) ==
    LET ImageMappingOr(r) ==
            IF r.err \/ r.found THEN r ELSE GetImageMapping(Tail(providers), sourceImage)
    IN  IF providers = <<>> THEN [target |-> <<>>, found |-> FALSE, err |-> FALSE]
        ELSE ImageMappingOr(CatalogImageMapping(Head(providers), sourceImage))

RECURSIVE GetPackageMappings(_, _, _)
GetPackageMappings(providers, distro, sourcePackage) ==
    LET PackageMappingsOr(r) ==
            IF r.err \/ r.found THEN r
            ELSE GetPackageMappings(Tail(providers), distro, sourcePackage)
    IN  IF providers = <<>> THEN [targets |-> <<>>, found |-> FALSE, err |-> FALSE]
        ELSE PackageMappingsOr(CatalogPackageMappings(Head(providers), distro,
                                                      sourcePackage))

EmptyMappings == [Images |-> <<>>, Packages |-> {}]

\* The orders in which a range over the map Images can visit its entries:
\* Go fixes none, and each range may take another one.
RangeOrders(images) ==
    LET n == Len(images)
    IN  {[i \in 1..n |-> images[q[i]]] :
            q \in {f \in [1..n -> 1..n] : \A i, j \in 1..n : f[i] = f[j] => i = j}}

NewInMemoryMappingProvider(mappings) ==
    [Images |-> mappings.Images, Packages |-> mappings.Packages, Fails |-> "none"]

\* The provider Convert sets up: nil (<<>>) or a one-element sequence holding
\* the chain; err is the error Convert returns when it can set up none.
\* builtin is the built-in database the process can open, <<>> when it cannot.
\* SetUpProvider with no provider taken as an error whatever NoBuiltIn says
SetUpProviderRequired(o, builtin) ==
    LET ChainOf(providers) ==
            IF providers # <<>>
            THEN [provider |-> <<providers>>, err |-> <<>>]
            ELSE [provider |-> <<>>,
                  err |-> <<"failed to initialize any mapping providers">>]
    IN  IF o.MappingProvider # <<>>
        THEN [provider |-> o.MappingProvider, err |-> <<>>]
        ELSE ChainOf((IF ~o.NoBuiltIn THEN builtin ELSE <<>>)
                     \o (IF o.ExtraMappings.Images # <<>> \/ o.ExtraMappings.Packages # {}
                         THEN <<NewInMemoryMappingProvider(o.ExtraMappings)>>
                         ELSE <<>>))

SetUpProvider(o, builtin) ==
    LET ChainOf(providers, noBuiltIn) ==
            IF providers # <<>>
            THEN [provider |-> <<providers>>, err |-> <<>>]
            ELSE IF ~noBuiltIn
            THEN [provider |-> <<>>,
                  err |-> <<"failed to initialize any mapping providers">>]
            ELSE [provider |-> <<>>, err |-> <<>>]
    IN  IF o.MappingProvider # <<>>
        THEN [provider |-> o.MappingProvider, err |-> <<>>]
        ELSE ChainOf((IF ~o.NoBuiltIn THEN builtin ELSE <<>>)
                     \o (IF o.ExtraMappings.Images # <<>> \/ o.ExtraMappings.Packages # {}
                         THEN <<NewInMemoryMappingProvider(o.ExtraMappings)>>
                         ELSE <<>>),
                     o.NoBuiltIn)

-----------------------------------------------------------------------------
(* FROM and ARG conversion *)

\* the tag as it is, but for the default of the empty tag
convertImageTagVerbatim(tag) == IF tag = <<>> THEN DefaultImageTag ELSE tag

\* convertImageTag: the tag cut at its first "-", a leading "v" before a digit
\* dropped, then the tag made of the first two of its numeric parts, "latest"
\* when a part is no number.  Atoi is strconv.Atoi (digits with an optional
\* sign) on the words of the alphabet made of digits, Itoa is
\* fmt.Sprintf("%d", n) on their values.
convertImageTag(tag) ==
    LET NumberWords ==
            {"0", "1", "2", "3", "4", "8", "9", "04", "09", "16", "18", "20", "22", "23"}
        AtoiWord(w) ==
            CASE w = "0" -> 0 [] w = "1" -> 1 [] w = "2" -> 2 [] w = "3" -> 3 [] w = "4" -> 4
              [] w = "8" -> 8 [] w = "9" -> 9 [] w = "04" -> 4 [] w = "09" -> 9
              [] w = "16" -> 16 [] w = "18" -> 18 [] w = "20" -> 20 [] w = "22" -> 22
              [] w = "23" -> 23
        Itoa(n) ==
            CASE n = 0 -> "0" [] n = 1 -> "1" [] n = 2 -> "2" [] n = 3 -> "3"
              [] n = 4 -> "4" [] n = 8 -> "8" [] n = 9 -> "9" [] n = 16 -> "16"
              [] n = 18 -> "18" [] n = 20 -> "20" [] n = 22 -> "22" [] n = 23 -> "23"
        AtoiOk(s) ==
            \/ Len(s) = 1 /\ s[1] \in NumberWords
            \/ Len(s) = 2 /\ s[1] \in {"+", "-"} /\ s[2] \in NumberWords
        Atoi(s) ==
            IF Len(s) = 1 THEN AtoiWord(s[1])
            ELSE IF s[1] = "-" THEN 0 - AtoiWord(s[2]) ELSE AtoiWord(s[2])
        TrimTagSuffix(x, hyphenIndex) ==
            IF hyphenIndex # 0 THEN SubSeq(x, 1, hyphenIndex - 1) ELSE x
        TrimTagV(x) ==
            IF Len(x) > 1 /\ x[1] = "v" /\ x[2] \in NumberWords THEN Tail(x) ELSE x
        TruncateSemver(x, semverParts) ==
            IF Len(semverParts) = 1 /\ AtoiOk(semverParts[1]) THEN x
            ELSE IF /\ Len(semverParts) >= 2
                    /\ AtoiOk(semverParts[1]) /\ AtoiOk(semverParts[2])
                    /\ Atoi(semverParts[1]) >= 0 /\ Atoi(semverParts[2]) >= 0
            THEN IF Len(semverParts) > 2
                 THEN <<Itoa(Atoi(semverParts[1])), ".", Itoa(Atoi(semverParts[2]))>>
                 ELSE x
            ELSE <<"latest">>
        TruncateTag(x) == TruncateSemver(x, Split(x, <<".">>))
    IN  IF tag = <<>> THEN DefaultImageTag
        ELSE TruncateTag(TrimTagV(TrimTagSuffix(tag, Index(tag, <<"-">>))))

\* calculateConvertedTag: the converted tag, the openjdk- prefix, the -dev suffix
calculateConvertedTag(baseFilename, tag, isDynamicTag, needsDevSuffix) ==
    LET AddDevSuffix(convertedTag) ==
            IF needsDevSuffix /\ convertedTag # <<"latest">>
            THEN IF ~HasSuffix(convertedTag, <<"-", "dev">>)
                 THEN convertedTag \o <<"-", "dev">> ELSE convertedTag
            ELSE IF needsDevSuffix /\ convertedTag = <<"latest">> THEN DefaultImageTag
            ELSE convertedTag
        AddJdkPrefix(convertedTag) ==
            IF baseFilename \in {<<"jdk">>, <<"jre">>}
               /\ convertedTag # <<"latest">> /\ convertedTag # <<"latest", "-", "dev">>
            THEN <<"openjdk", "-">> \o convertedTag ELSE convertedTag
    IN  IF baseFilename = DefaultChainguardBase THEN <<"latest">>
        ELSE AddDevSuffix(AddJdkPrefix(IF tag = <<>> THEN <<"latest">>
                                       ELSE IF Contains(tag, <<"$">>) THEN tag
                                       ELSE convertImageTag(tag)))

buildImageReference(baseFilename, tag, o) ==
    LET WithTag(newBase) == IF tag # <<>> THEN newBase \o <<":">> \o tag ELSE newBase
    IN  IF o.Registry # <<>>
        THEN WithTag(o.Registry \o <<"/">> \o baseFilename)
        ELSE WithTag(DefaultRegistryDomain \o <<"/">>
                     \o (IF o.Organization = <<>> THEN DefaultOrg ELSE o.Organization)
                     \o <<"/">> \o baseFilename)

\* filepath.Base
FilepathBase(path) ==
    LET RECURSIVE TrimSlashes(_)
        TrimSlashes(s) ==
            IF s # <<>> /\ s[Len(s)] = "/" THEN TrimSlashes(SubSeq(s, 1, Len(s) - 1)) ELSE s
        LastOf(parts) == parts[Len(parts)]
        BaseOfTrimmed(q) == IF q = <<>> THEN <<"/">> ELSE LastOf(Split(q, <<"/">>))
    IN  IF path = <<>> THEN <<".">> ELSE BaseOfTrimmed(TrimSlashes(path))

generateDockerHubVariants(base) ==
    LET DockerIO == <<"docker", ".", "io", "/">>
        Registry1DockerIO == <<"registry", "-", "1", ".", "docker", ".", "io", "/">>
        IndexDockerIO == <<"index", ".", "docker", ".", "io", "/">>
        Library == <<"library", "/">>
        VariantsOfParts(parts) ==
            IF Len(parts) = 1
            THEN <<base, DockerIO \o base, DockerIO \o Library \o base,
                   Registry1DockerIO \o Library \o base, IndexDockerIO \o base,
                   IndexDockerIO \o Library \o base>>
            ELSE IF Len(parts) = 2
            THEN <<base, DockerIO \o base, Registry1DockerIO \o base,
                   IndexDockerIO \o base>>
            ELSE <<base>>
    IN  IF Contains(base, <<"/">>) /\ Contains(base, <<".">>) THEN <<base>>
        ELSE VariantsOfParts(Split(base, <<"/">>))

\* convertFromLine: ref is the string it returns, errs the number of provider
\* calls that returned an error.
\* LookupVariants is the loop over the variants: the first variant the provider
\* finds; a lookup that fails is logged and skipped.  LegacyTarget is the branch
\* on opts.ExtraMappings.Images (no provider): the exact entry, else a wildcard
\* entry, else the entry of a variant.  TargetImage is the target image of a
\* base: the mapping of the provider, else of the legacy mappings, else the
\* base's file name.  HookResult is what each FromLineConverter of the model
\* returns; when it fails or returns "" the reference is kept.
convertFromLine(from, stage, stagesWithRunCommands, o) ==
    LET RECURSIVE LookupVariants(_, _, _), FirstMapped(_, _)
        LookedUp(r, provider, variants, acc) ==
            IF r.err THEN LookupVariants(provider, variants, [acc EXCEPT !.errs = @ + 1])
            ELSE IF r.found THEN [acc EXCEPT !.target = r.target]
            ELSE LookupVariants(provider, variants, acc)
        LookupVariants(provider, variants, acc) ==
            IF variants = <<>> THEN acc
            ELSE IF Head(variants) = <<>> THEN LookupVariants(provider, Tail(variants), acc)
            ELSE LookedUp(GetImageMapping(provider, Head(variants)), provider,
                          Tail(variants), acc)
        TargetOf(images, sources) ==
            images[MinOrZero({i \in 1..Len(images) : images[i][1] \in sources})][2]
        FirstMapped(images, variants) ==
            IF variants = <<>> THEN <<>>
            ELSE IF /\ Head(variants) # <<>>
                    /\ \E i \in 1..Len(images) : images[i][1] = Head(variants)
            THEN <<Head(variants)>>
            ELSE FirstMapped(images, Tail(variants))
        Wildcards(images, base) ==
            {i \in 1..Len(images) :
                Contains(images[i][1], <<"*">>) /\ MatchPattern(images[i][1], base)}
        LegacyChoice(images, wild, normal, baseFilename) ==
            IF wild # {} THEN images[MinOrZero(wild)][2]
            ELSE IF normal # <<>> THEN TargetOf(images, {normal[1]})
            ELSE baseFilename
        LegacyTarget(images, base, baseFilename) ==
            IF \E i \in 1..Len(images) : images[i][1] = base
            THEN TargetOf(images, {base})
            ELSE LegacyChoice(images, Wildcards(images, base),
                              FirstMapped(images, generateDockerHubVariants(base)),
                              baseFilename)
        HookResult(hook, imageRef, needsDevSuffix) ==
            CASE hook = "keep" -> [ref |-> imageRef, err |-> FALSE]
              [] hook = "fail" -> [ref |-> <<"bad">>, err |-> TRUE]
              [] hook = "empty" -> [ref |-> <<>>, err |-> FALSE]
              [] hook = "own" -> [ref |-> <<"own", "/">> \o from.Base, err |-> FALSE]
        TargetImage(base, baseFilename) ==
            IF o.MappingProvider # <<>>
            THEN LookupVariants(o.MappingProvider[1],
                                <<base>> \o generateDockerHubVariants(base),
                                [target |-> baseFilename, errs |-> 0])
            ELSE IF o.ExtraMappings.Images # <<>>
            THEN [target |-> LegacyTarget(o.ExtraMappings.Images, base, baseFilename),
                  errs |-> 0]
            ELSE [target |-> baseFilename, errs |-> 0]
        ConvertedTag(baseFilename, needsDevSuffix) ==
            IF from.Tag # <<>> /\ ~from.TagDynamic
            THEN calculateConvertedTag(baseFilename, from.Tag, from.TagDynamic,
                                       needsDevSuffix)
            ELSE IF needsDevSuffix THEN <<"latest", "-", "dev">>
            ELSE <<"latest">>
        WithDigestAndAlias(ref) ==
            ref \o (IF from.Digest # <<>> THEN <<"@">> \o from.Digest ELSE <<>>)
                \o (IF from.Alias # <<>>
                    THEN <<" ">> \o KeywordAs \o <<" ">> \o from.Alias
                    ELSE <<>>)
        Hooked(hooked, imageRef) ==
            IF ~hooked.err /\ hooked.ref # <<>> THEN hooked.ref ELSE imageRef
        ApplyFromLineConverter(imageRef, needsDevSuffix) ==
            IF o.FromLineConverter # <<>>
            THEN Hooked(HookResult(o.FromLineConverter[1], imageRef, needsDevSuffix),
                        imageRef)
            ELSE imageRef
        ConvertedFrom(looked, baseFilename, needsDevSuffix) ==
            [ref |-> ApplyFromLineConverter(
                         WithDigestAndAlias(
                             buildImageReference(looked.target,
                                                 ConvertedTag(baseFilename, needsDevSuffix),
                                                 o)),
                         needsDevSuffix),
             errs |-> looked.errs]
        ConvertBase(baseFilename, needsDevSuffix) ==
            ConvertedFrom(TargetImage(from.Base, baseFilename), baseFilename,
                          needsDevSuffix)
    IN  ConvertBase(FilepathBase(from.Base), stage \in stagesWithRunCommands)

parseImageReference(imageRef) ==
    LET ImageOfParts(tagParts) ==
            IF Len(tagParts) > 1
            THEN [base |-> tagParts[1], tag |-> tagParts[2]]
            ELSE [base |-> imageRef, tag |-> <<>>]
    IN  ImageOfParts(Split(imageRef, <<":">>))

determineIfArgNeedsDevSuffix(argName, lines, stagesWithRunCommands) ==
    LET FirstStageIn(hits) ==
            hits # {} /\ lines[MinOrZero(hits)].Stage \in stagesWithRunCommands
    IN  FirstStageIn({i \in 1..Len(lines) :
                        /\ lines[i].From # NoFrom
                        /\ lines[i].From[1].BaseDynamic
                        /\ \/ Contains(lines[i].From[1].Base,
                                       <<"$", "{">> \o argName \o <<"}">>)
                           \/ Contains(lines[i].From[1].Base, <<"$">> \o argName)})

\* convertArgLine: the converted line, the new ArgDetails, and the failed
\* lookups.  FakeFrom is the FromDetails it makes of the default value; the
\* stage it hands to convertFromLine is -1.
convertArgLine(arg, lines, stagesWithRunCommands, o) ==
    LET FakeFrom(ref, defaultValue) ==
            [Base |-> ref.base, Tag |-> ref.tag, Digest |-> <<>>, Alias |-> <<>>,
             Parent |-> 0, BaseDynamic |-> FALSE, TagDynamic |-> FALSE,
             Orig |-> defaultValue]
        ArgLine(name, defaultValue) ==
            IF defaultValue # <<>>
            THEN DirectiveArg \o <<" ">> \o name \o <<"=">> \o defaultValue
            ELSE DirectiveArg \o <<" ">> \o name
        ConvertedArg(c) ==
            [line |-> ArgLine(arg.Name, c.ref),
             arg |-> [Name |-> arg.Name, DefaultValue |-> c.ref,
                      UsedAsBase |-> arg.UsedAsBase],
             errs |-> c.errs]
    IN  IF arg.UsedAsBase /\ arg.DefaultValue # <<>>
        THEN ConvertedArg(convertFromLine(FakeFrom(parseImageReference(arg.DefaultValue),
                                                   arg.DefaultValue),
                                          -1, stagesWithRunCommands, o))
        ELSE ConvertedArg([ref |-> arg.DefaultValue, errs |-> 0])

\* shouldConvertFromLine without the test for scratch
shouldConvertFromLineNoScratch(from) == ~(from.Parent > 0 \/ from.BaseDynamic)

shouldConvertFromLine(from) ==
    ~(from.Base = <<"scratch">> \/ from.Parent > 0 \/ from.BaseDynamic)

copyFromDetails(from) ==
    [Base |-> from.Base, Tag |-> from.Tag, Digest |-> from.Digest, Alias |-> from.Alias,
     Parent |-> from.Parent, BaseDynamic |-> from.BaseDynamic,
     TagDynamic |-> from.TagDynamic, Orig |-> from.Orig]

-----------------------------------------------------------------------------
(* RUN conversion *)

cloneShellPart(part) ==
    [ExtraPre |-> part.ExtraPre, Command |-> part.Command, Args |-> part.Args,
     Delimiter |-> part.Delimiter, Value |-> <<>>]

cloneShellCommand(cmd) ==
    [Parts |-> [i \in 1..Len(cmd.Parts) |-> cloneShellPart(cmd.Parts[i])]]

getPackageManagerInfo(command) == PackageManagerInfoMap(command)

\* a rewrite that finds the package manager in Command and replaces the
\* commands by apk add
convertPackageManagerCommandsByCommand(shell, provider) ==
    LET Managers == {i \in 1..Len(shell.Parts) :
                        PackageManagerInfoMap(shell.Parts[i].Command).Distro # <<>>}
        Found(command) ==
            [found |-> TRUE, distro |-> PackageManagerInfoMap(command).Distro,
             manager |-> command, detected |-> <<>>, toInstall |-> <<>>,
             shell |-> [Parts |-> <<ValuePart(<<"apk">>), ValuePart(<<"add">>)>>],
             errs |-> 0, panic |-> FALSE]
    IN  IF Managers = {}
        THEN [found |-> FALSE, distro |-> <<>>, manager |-> <<>>, detected |-> <<>>,
              toInstall |-> <<>>, shell |-> shell, errs |-> 0, panic |-> FALSE]
        ELSE Found(shell.Parts[MinOrZero(Managers)].Command)

\* convertPackageManagerCommands(ctx, shell, provider), shell not nil.
\* ScanParts is the loop over i, ScanInstall the loop over j (js are the parts
\* from i on that hold the install keyword), CollectPackages the loop over k
\* (the parts after the install keyword).  A package is detected; it is
\* installed under the names the provider gives, under its own name when the
\* provider has none, and not at all when the lookup fails.  A nil provider
\* makes the call of GetPackageMappings panic.  UniquePackages are the packages
\* in order of first appearance, the empty name left out.
convertPackageManagerCommands(shell, provider) ==
    LET RECURSIVE UniquePackages(_, _), CollectPackages(_, _, _, _), ScanParts(_, _, _, _)
        UniquePackages(pkgs, seen) ==
            IF pkgs = <<>> THEN <<>>
            ELSE IF Head(pkgs) # <<>> /\ Head(pkgs) \notin seen
            THEN <<Head(pkgs)>> \o UniquePackages(Tail(pkgs), seen \cup {Head(pkgs)})
            ELSE UniquePackages(Tail(pkgs), seen)
        IsPackageName(arg, info) ==
            /\ ~HasPrefix(arg, <<"-">>)
            /\ arg # <<"install">> /\ arg # <<"upgrade">> /\ arg # <<"add">>
            /\ arg # info.InstallKeyword
        AddPackage(acc, arg, r) ==
            IF r.err THEN [acc EXCEPT !.detected = Append(@, arg), !.errs = @ + 1]
            ELSE IF r.found /\ Len(r.targets) > 0
            THEN [acc EXCEPT !.detected = Append(@, arg), !.toInstall = @ \o r.targets]
            ELSE [acc EXCEPT !.detected = Append(@, arg), !.toInstall = Append(@, arg)]
        CollectPackage(arg, info, acc) ==
            IF ~IsPackageName(arg, info) THEN acc
            ELSE IF provider = <<>> THEN [acc EXCEPT !.panic = TRUE]
            ELSE AddPackage(acc, arg, GetPackageMappings(provider[1], info.Distro, arg))
        CollectPackages(parts, k, info, acc) ==
            IF k > Len(parts) \/ acc.panic THEN acc
            ELSE CollectPackages(parts, k + 1, info,
                                 CollectPackage(parts[k].Value, info, acc))
        NoPackages == [detected |-> <<>>, toInstall |-> <<>>, errs |-> 0, panic |-> FALSE]
        ApkAdd(unique) ==
            <<ValuePart(<<"apk">>), ValuePart(<<"add">>)>>
            \o [n \in 1..Len(unique) |-> ValuePart(unique[n])]
        FoundPMCommand(info, command, acc) ==
            [found |-> TRUE, distro |-> info.Distro, manager |-> command,
             detected |-> acc.detected, toInstall |-> acc.toInstall,
             parts |-> ApkAdd(UniquePackages(acc.toInstall, {})),
             errs |-> acc.errs, panic |-> acc.panic]
        ScanInstall(parts, i, info, command, js) ==
            IF js = {} THEN ScanParts(parts, i + 1, info.Distro, command)
            ELSE FoundPMCommand(info, command,
                                CollectPackages(parts, MinOrZero(js) + 1, info, NoPackages))
        ScanPart(parts, i, distro, manager, command, info) ==
            IF info.Distro = <<>> THEN ScanParts(parts, i + 1, distro, manager)
            ELSE ScanInstall(parts, i, info, command,
                             {j \in i..Len(parts) :
                                 Contains(parts[j].Value, info.InstallKeyword)})
        ScanParts(parts, i, distro, manager) ==
            IF i > Len(parts)
            THEN [found |-> FALSE, distro |-> distro, manager |-> manager,
                  detected |-> <<>>, toInstall |-> <<>>, parts |-> parts, errs |-> 0,
                  panic |-> FALSE]
            ELSE ScanPart(parts, i, distro, manager, parts[i].Value,
                          getPackageManagerInfo(parts[i].Value))
        ScannedShell(r) ==
            [found |-> r.found, distro |-> r.distro, manager |-> r.manager,
             detected |-> r.detected, toInstall |-> r.toInstall,
             shell |-> [Parts |-> r.parts], errs |-> r.errs, panic |-> r.panic]
        ConvertClonedShell(newShell) ==
            IF Len(newShell.Parts) = 0
            THEN [found |-> FALSE, distro |-> <<>>, manager |-> <<>>, detected |-> <<>>,
                  toInstall |-> <<>>, shell |-> newShell, errs |-> 0, panic |-> FALSE]
            ELSE ScannedShell(ScanParts(newShell.Parts, 1, <<>>, <<>>))
    IN  ConvertClonedShell(cloneShellCommand(shell))

\* adduser.go: useradd becomes adduser, -D put before the user name
ConvertUserAddToAddUser(part) ==
    LET n == Len(part.Args)
    IN  [part EXCEPT !.Command = CommandAddUser,
                     !.Args = IF n = 0 THEN <<>>
                              ELSE SubSeq(part.Args, 1, n - 1) \o <<<<"-", "D">>, part.Args[n]>>]

\* adduser.go: groupadd becomes addgroup with the same arguments
ConvertGroupAddToAddGroup(part) == [part EXCEPT !.Command = CommandAddGroup]

\* tar.go: the flags busybox tar does not accept are removed
ConvertGNUTarToBusyboxTar(part) ==
    LET GNUTarOnlyFlags ==
            {<<"-", "-", "no", "-", "same", "-", "owner">>,
             <<"-", "-", "no", "-", "same", "-", "permissions">>}
    IN  [part EXCEPT !.Args = SelectSeq(part.Args, LAMBDA a : a \notin GNUTarOnlyFlags)]

\* slices.Contains
SeqContains(seq, x) == \E i \in 1..Len(seq) : seq[i] = x

\* convertBusyboxCommands: the handlers in the order of the registry; shadow
\* switches the first two off.  Handled is the result of a handler: its part
\* when it changed the command or the arguments.
convertBusyboxCommands(shell, stagePackages) ==
    LET Handled(part, convertedPart, otherwise) ==
            IF convertedPart.Command # part.Command \/ convertedPart.Args # part.Args
            THEN [part |-> convertedPart, converted |-> TRUE]
            ELSE otherwise
        BusyboxPart(part, hasShadow) ==
            IF ~hasShadow /\ part.Command = CommandUserAdd
            THEN Handled(part, ConvertUserAddToAddUser(part),
                         [part |-> cloneShellPart(part), converted |-> FALSE])
            ELSE IF ~hasShadow /\ part.Command = CommandGroupAdd
            THEN Handled(part, ConvertGroupAddToAddGroup(part),
                         [part |-> cloneShellPart(part), converted |-> FALSE])
            ELSE IF part.Command = CommandGNUTar
            THEN Handled(part, ConvertGNUTarToBusyboxTar(part),
                         [part |-> cloneShellPart(part), converted |-> FALSE])
            ELSE [part |-> cloneShellPart(part), converted |-> FALSE]
        BusyboxShell(each) ==
            IF \E i \in 1..Len(each) : each[i].converted
            THEN [converted |-> TRUE,
                  shell |-> [Parts |-> [i \in 1..Len(each) |-> each[i].part]]]
            ELSE [converted |-> FALSE, shell |-> shell]
        BusyboxParts(hasShadow) ==
            BusyboxShell([i \in 1..Len(shell.Parts) |->
                             BusyboxPart(shell.Parts[i], hasShadow)])
    IN  IF Len(shell.Parts) = 0 THEN [converted |-> FALSE, shell |-> shell]
        ELSE BusyboxParts(SeqContains(stagePackages, PackageShadow))

\* processRunLine: the new line, the stage packages after it, failed lookups.
\* StagePackagesOf is stagePackages[stage], nil when the stage has no entry;
\* RunLine is newLine with the converted shell and the converted text;
\* AppendStagePackages is
\* stagePackages[stage] = append(stagePackages[stage], packages...);
\* BusyboxRunLine is the else branch.
processRunLine(newLine, line, stagePackages, provider) ==
    LET StagePackagesOf(stage) ==
            IF stage \in DOMAIN stagePackages THEN stagePackages[stage] ELSE <<>>
        RunPrefix == DirectiveRun \o <<" ">>
        RunLine(distro, manager, packages, shell) ==
            [newLine EXCEPT
                !.Run = <<[Distro |-> distro, Manager |-> manager, Packages |-> packages,
                           Shell |-> <<[Before |-> <<shell>>, After |-> <<>>]>>]>>,
                !.Converted = RunPrefix \o ShellCommandString(shell)]
        AppendStagePackages(stage, packages) ==
            [s \in DOMAIN stagePackages \cup {stage} |->
                IF s = stage THEN StagePackagesOf(stage) \o packages
                ELSE stagePackages[s]]
        BusyboxRunLine(pm, bb) ==
            [line |-> IF bb.converted THEN RunLine(<<>>, <<>>, <<>>, bb.shell)
                      ELSE newLine,
             stagePackages |-> stagePackages, errs |-> pm.errs, panic |-> pm.panic]
        ConvertedRunLine(pm) ==
            IF pm.found
            THEN [line |-> RunLine(pm.distro, pm.manager, pm.detected, pm.shell),
                  stagePackages |-> AppendStagePackages(line.Stage, pm.detected),
                  errs |-> pm.errs, panic |-> pm.panic]
            ELSE BusyboxRunLine(pm, convertBusyboxCommands(pm.shell,
                                                           StagePackagesOf(line.Stage)))
    IN  ConvertedRunLine(convertPackageManagerCommands(
                             cloneShellCommand(line.Run[1].Shell[1].Before[1]), provider))

-----------------------------------------------------------------------------
(* Dockerfile.Convert *)

\* every stage counted as a stage with a RUN command
detectStagesOfAllLines(lines) == {lines[i].Stage : i \in 1..Len(lines)}

detectStagesWithRunCommands(lines) ==
    {lines[i].Stage : i \in {j \in 1..Len(lines) :
        HasPrefix(ToUpper(TrimSpace(lines[j].Raw)), DirectiveRun \o <<" ">>)}}

\* identifyArgsUsedAsBaseImages: the lines of the receiver after the call,
\* which sets UsedAsBase in the ArgDetails of the lines themselves.
\* BaseArgName is the name a FROM base of the form $NAME or ${NAME} refers to,
\* IsMapped(i) says that line i is argNameToLine[name], the last ARG line of
\* its name.
identifyArgsUsedAsBaseImages(lines) ==
    LET BraceName(argName) ==
            IF HasPrefix(argName, <<"{">>) /\ HasSuffix(argName, <<"}">>)
            THEN SubSeq(argName, 2, Len(argName) - 1)
            ELSE argName
        BaseArgName(baseName) == BraceName(Tail(baseName))
        IsMapped(i) ==
            /\ lines[i].Arg # NoArg
            /\ lines[i].Arg[1].Name # <<>>
            /\ ~\E j \in (i + 1)..Len(lines) :
                  /\ lines[j].Arg # NoArg
                  /\ lines[j].Arg[1].Name = lines[i].Arg[1].Name
        Marked(argsUsedAsBase) ==
            [i \in 1..Len(lines) |->
                IF IsMapped(i) /\ lines[i].Arg[1].Name \in argsUsedAsBase
                THEN [lines[i] EXCEPT !.Arg = <<[@[1] EXCEPT !.UsedAsBase = TRUE]>>]
                ELSE lines[i]]
    IN  Marked({BaseArgName(lines[i].From[1].Base) : i \in {j \in 1..Len(lines) :
                   /\ lines[j].From # NoFrom
                   /\ lines[j].From[1].BaseDynamic
                   /\ HasPrefix(lines[j].From[1].Base, <<"$">>)}})

\* addUserRootDirectives.  ContainsDefaultUser is
\* strings.Contains(strings.ToLower(s), DefaultUser); AppendUserRoot is the
\* second loop.
addUserRootDirectives(lines) ==
    LET RECURSIVE AppendUserRoot(_, _, _, _)
        ContainsDefaultUser(s) == \E i \in 1..Len(s) : ToLower(s)[i] \in DefaultUserWords
        IsUserRootDirective(s) ==
            /\ HasPrefix(ToUpper(TrimSpace(s)), DirectiveUser \o <<" ">>)
            /\ ContainsDefaultUser(s)
        AppendUserRoot(ls, i, stagesWithConvertedRuns, stagesWithUserRoot) ==
            IF i > Len(ls) THEN ls
            ELSE IF /\ ls[i].From # NoFrom
                    /\ ls[i].Stage \in stagesWithConvertedRuns
                    /\ ls[i].Converted # <<>>
                    /\ ls[i].Stage \notin stagesWithUserRoot
            THEN AppendUserRoot(
                     [ls EXCEPT ![i].Converted =
                                    @ \o <<"\n">> \o DirectiveUser \o <<" ", "root">>],
                     i + 1, stagesWithConvertedRuns, stagesWithUserRoot \cup {ls[i].Stage})
            ELSE AppendUserRoot(ls, i + 1, stagesWithConvertedRuns, stagesWithUserRoot)
    IN  AppendUserRoot(lines, 1,
                       {lines[i].Stage : i \in {j \in 1..Len(lines) :
                           lines[j].Run # NoRun /\ lines[j].Converted # <<>>}},
                       {lines[i].Stage : i \in {j \in 1..Len(lines) :
                           \/ IsUserRootDirective(lines[j].Raw)
                           \/ IsUserRootDirective(lines[j].Converted)}})

\* NewLine without the copy of Extra
NewLineNoExtra(line) ==
    [Raw |-> line.Raw, Converted |-> <<>>, Extra |-> <<>>, Stage |-> line.Stage,
     From |-> NoFrom, Run |-> NoRun, Arg |-> NoArg]

\* the copy of a line the loop of Convert starts from
NewLine(line) ==
    [Raw |-> line.Raw, Converted |-> <<>>, Extra |-> line.Extra, Stage |-> line.Stage,
     From |-> NoFrom, Run |-> NoRun, Arg |-> NoArg]

\* Returned with a failed lookup turned into the error of Convert
ReturnedOrError(marked, acc) ==
    IF acc.errs > 0
    THEN [out |-> <<>>, err |-> <<"looking up mapping">>, receiver |-> marked,
          errs |-> acc.errs, panic |-> FALSE]
    ELSE [out |-> <<addUserRootDirectives(acc.lines)>>, err |-> <<>>,
          receiver |-> marked, errs |-> acc.errs, panic |-> FALSE]

\* what Convert returns: out is the returned Dockerfile (<<>> is nil, else the
\* one-element sequence holding its Lines), err the returned error (<<>> is
\* nil), receiver the Lines of the receiver after the call, errs the number of
\* provider calls that failed
Returned(marked, acc) ==
    IF acc.panic
    THEN [out |-> <<>>, err |-> <<>>, receiver |-> marked, errs |-> acc.errs,
          panic |-> TRUE]
    ELSE [out |-> <<addUserRootDirectives(acc.lines)>>, err |-> <<>>,
          receiver |-> marked, errs |-> acc.errs, panic |-> FALSE]

\* Dockerfile.Convert on the receiver with the given Lines.
\* ConvertLine is the body of the loop over the lines of the receiver, with its
\* FROM, ARG and RUN steps; Converted is the state of the loop with one more
\* line; ConvertMarked is the two passes over the lines, the ARGs used as base
\* images marked.
Convert(lines, o, builtin) ==
    LET RECURSIVE ConvertLines(_, _, _, _, _)
        Converted(acc, newLine, stagePackages, errs, panic) ==
            [lines |-> Append(acc.lines, newLine), stagePackages |-> stagePackages,
             errs |-> acc.errs + errs, panic |-> acc.panic \/ panic]
        ProcessedRun(acc, r, errs) ==
            Converted(acc, r.line, r.stagePackages, errs + r.errs, r.panic)
        ConvertRun(line, newLine, op, acc, errs) ==
            IF /\ line.Run # NoRun
               /\ line.Run[1].Shell # <<>>
               /\ line.Run[1].Shell[1].Before # <<>>
            THEN ProcessedRun(acc, processRunLine(newLine, line, acc.stagePackages,
                                                  op.MappingProvider), errs)
            ELSE Converted(acc, newLine, acc.stagePackages, errs, FALSE)
        ConvertedArgLine(line, newLine, op, acc, errs, a) ==
            ConvertRun(line, [newLine EXCEPT !.Converted = a.line, !.Arg = <<a.arg>>], op,
                       acc, errs + a.errs)
        ConvertArg(line, ls, stagesWithRunCommands, newLine, op, acc, errs) ==
            IF line.Arg # NoArg /\ line.Arg[1].UsedAsBase /\ line.Arg[1].DefaultValue # <<>>
            THEN ConvertedArgLine(line, newLine, op, acc, errs,
                                  convertArgLine(line.Arg[1], ls, stagesWithRunCommands, op))
            ELSE ConvertRun(line, newLine, op, acc, errs)
        ConvertedFromLine(line, ls, stagesWithRunCommands, newLine, op, acc, f) ==
            ConvertArg(line, ls, stagesWithRunCommands,
                       [newLine EXCEPT !.Converted = f.ref], op, acc, f.errs)
        ConvertFrom(line, ls, stagesWithRunCommands, newLine, op, acc) ==
            IF line.From = NoFrom
            THEN ConvertArg(line, ls, stagesWithRunCommands, newLine, op, acc, 0)
            ELSE IF shouldConvertFromLine(line.From[1])
            THEN ConvertedFromLine(
                     line, ls, stagesWithRunCommands,
                     [newLine EXCEPT !.From = <<copyFromDetails(line.From[1])>>], op, acc,
                     convertFromLine(line.From[1], line.Stage, stagesWithRunCommands, op))
            ELSE ConvertArg(line, ls, stagesWithRunCommands,
                            [newLine EXCEPT !.From = <<copyFromDetails(line.From[1])>>],
                            op, acc, 0)
        ConvertLine(line, ls, stagesWithRunCommands, op, acc) ==
            ConvertFrom(line, ls, stagesWithRunCommands, NewLine(line), op, acc)
        ConvertLines(ls, i, stagesWithRunCommands, op, acc) ==
            IF i > Len(ls) \/ acc.panic THEN acc
            ELSE ConvertLines(ls, i + 1, stagesWithRunCommands, op,
                              ConvertLine(ls[i], ls, stagesWithRunCommands, op, acc))
        ConvertMarked(marked, stagesWithRunCommands, optsWithProvider) ==
            Returned(marked,
                     ConvertLines(marked, 1, stagesWithRunCommands, optsWithProvider,
                                  [lines |-> <<>>, stagePackages |-> <<>>, errs |-> 0,
                                   panic |-> FALSE]))
        ConvertWith(setup) ==
            IF setup.err # <<>>
            THEN [out |-> <<>>, err |-> setup.err, receiver |-> lines, errs |-> 0,
                  panic |-> FALSE]
            ELSE ConvertMarked(identifyArgsUsedAsBaseImages(lines),
                               detectStagesWithRunCommands(lines),
                               [Organization |-> o.Organization, Registry |-> o.Registry,
                                ExtraMappings |-> EmptyMappings, NoBuiltIn |-> FALSE,
                                FromLineConverter |-> o.FromLineConverter,
                                MappingProvider |-> setup.provider])
    IN  ConvertWith(SetUpProvider(o, builtin))

-----------------------------------------------------------------------------
(* The mappings update (pkg/dfc/update.go) *)

(* The files the update works on.  dir: the cache directory exists;        *)
(* blobsDir: its directory blobs/sha256 exists; layout: the file           *)
(* oci-layout exists; index: the file index.json (<<>>: no file, else the  *)
(* one-element sequence of its content); blobs: the names of the files in  *)
(* blobs/sha256; configDir: the config directory of dfc exists; yamlLink   *)
(* and dbLink: the names of the blobs the symlinks builtin-mappings.yaml   *)
(* and builtin-mappings.db point to (<<>>: no symlink); dbGenerated: a     *)
(* database was generated from the YAML file.                              *)
NoFiles ==
    [dir |-> FALSE, blobsDir |-> FALSE, layout |-> FALSE, index |-> <<>>, blobs |-> {},
     configDir |-> FALSE, yamlLink |-> <<>>, dbLink |-> <<>>, dbGenerated |-> FALSE]

\* the content of index.json: an ociIndex with its Manifests, an empty file,
\* or the beginning of a JSON text that a failed write left behind
IndexFile(manifests) == [data |-> "json", Manifests |-> manifests]

EmptyFile == [data |-> "empty", Manifests |-> <<>>]

PartialFile == [data |-> "partial", Manifests |-> <<>>]

\* hex.EncodeToString of the SHA-256 hash of body: a text that the body
\* determines, different for different bodies
Sha256(body) == <<"#">> \o body

DigestString(body) == <<"sha256", ":">> \o Sha256(body)

\* what a function of the update returns: the files as it leaves them and
\* its error (<<>> is nil)
Failed(files, msg) == [files |-> files, err |-> <<msg>>]

Succeeded(files) == [files |-> files, err |-> <<>>]

\* initOCILayout(cacheDir); fail is the step that fails, if any.
\* os.WriteFile that fails leaves no file when it could not open it, and the
\* beginning of the data when the write failed.
initOCILayout(c, fail) ==
    LET WithBlobsDir == [c EXCEPT !.dir = TRUE, !.blobsDir = TRUE]
        WithLayout == [WithBlobsDir EXCEPT !.layout = TRUE]
    IN  IF fail = "initBlobsDir" THEN Failed(c, "creating blobs directory")
        ELSE IF fail = "initLayout" THEN Failed(WithBlobsDir, "writing oci-layout file")
        ELSE IF fail = "initIndexOpen" THEN Failed(WithLayout, "writing index.json file")
        ELSE IF fail = "initIndexWrite"
        THEN Failed([WithLayout EXCEPT !.index = <<PartialFile>>], "writing index.json file")
        ELSE Succeeded([WithLayout EXCEPT !.index = <<IndexFile(<<>>)>>])

\* the media type updateIndexJSON gives a descriptor
MediaTypeOf(fileType) ==
    CASE fileType = "yaml" -> "application/yaml"
      [] fileType = "db" -> "application/vnd.sqlite3"
      [] OTHER -> "application/octet-stream"

\* updateIndexJSON that appends the descriptor and removes none
updateIndexJSONAppend(c, digest, size, fileType, fail) ==
    LET descriptor ==
            [MediaType |-> MediaTypeOf(fileType), Digest |-> digest, Size |-> size,
             Type |-> fileType]
        Write(manifests) ==
            IF ~c.dir \/ fail = "indexOpen"
            THEN Failed(c, "writing updated index.json")
            ELSE Succeeded([c EXCEPT !.index = <<IndexFile(Append(manifests, descriptor))>>])
    IN  IF c.index = <<>> \/ c.index[1].data = "empty" THEN Write(<<>>)
        ELSE Write(c.index[1].Manifests)

\* updateIndexJSON(cacheDir, digest, size, fileType); fail is the step that
\* fails, if any.  The descriptor holds the type of the annotations; the time
\* of the download, which nothing reads, is left out.
updateIndexJSON(c, digest, size, fileType, fail) ==
    LET descriptor ==
            [MediaType |-> MediaTypeOf(fileType), Digest |-> digest, Size |-> size,
             Type |-> fileType]
        IsOther(manifest) == manifest.Digest # digest
        Write(manifests) ==
            IF ~c.dir \/ fail = "indexOpen"
            THEN Failed(c, "writing updated index.json")
            ELSE IF fail = "indexTruncate"
            THEN Failed([c EXCEPT !.index = <<EmptyFile>>], "writing updated index.json")
            ELSE IF fail = "indexWrite"
            THEN Failed([c EXCEPT !.index = <<PartialFile>>], "writing updated index.json")
            ELSE Succeeded([c EXCEPT !.index =
                                <<IndexFile(Append(SelectSeq(manifests, IsOther),
                                                   descriptor))>>])
    IN  IF c.index # <<>> /\ fail = "indexRead" THEN Failed(c, "reading index.json")
        ELSE IF c.index = <<>> \/ c.index[1].data = "empty" THEN Write(<<>>)
        ELSE IF c.index[1].data = "partial" THEN Failed(c, "unmarshalling index.json")
        ELSE Write(c.index[1].Manifests)

\* the answer of the server: err is "fetch" when the request fails and "read"
\* when reading the body fails
Response(err, status, body) == [err |-> err, status |-> status, body |-> body]

\* updateMappingsFile(ctx, mappingsURL, userAgent) with the answer resp of the
\* server; fail is the step that fails, if any
updateMappingsFile(c, resp, fail) ==
    LET Linked(files, hashString) ==
            IF fail = "symlink"
            THEN Failed([files EXCEPT !.yamlLink = <<>>], "creating symlink")
            ELSE Succeeded([files EXCEPT !.yamlLink = <<hashString>>])
        Existing(files, hashString) ==
            IF fail = "configDir" THEN Failed(files, "creating nested config directory")
            ELSE IF files.yamlLink # <<hashString>>
            THEN Linked([files EXCEPT !.configDir = TRUE], hashString)
            ELSE Succeeded([files EXCEPT !.configDir = TRUE])
        Indexed(r, hashString) ==
            IF r.err # <<>> THEN Failed(r.files, "updating index.json")
            ELSE IF fail = "configDir"
            THEN Failed(r.files, "creating nested config directory")
            ELSE Linked([r.files EXCEPT !.configDir = TRUE], hashString)
        Saved(files, body) ==
            IF fail = "blobsDir" THEN Failed(files, "creating blobs directory")
            ELSE IF fail = "blobOpen"
            THEN Failed([files EXCEPT !.blobsDir = TRUE], "writing mapping file")
            ELSE IF fail = "blobWrite"
            THEN Failed([files EXCEPT !.blobsDir = TRUE, !.blobs = @ \cup {Sha256(body)}],
                        "writing mapping file")
            ELSE Indexed(updateIndexJSON([files EXCEPT !.blobsDir = TRUE,
                                                       !.blobs = @ \cup {Sha256(body)}],
                                         DigestString(body), Len(body), "yaml", fail),
                         Sha256(body))
        Stored(files, body) ==
            IF Sha256(body) \in files.blobs THEN Existing(files, Sha256(body))
            ELSE Saved(files, body)
        Initialized(r, body) ==
            IF r.err # <<>> THEN Failed(r.files, "initializing OCI layout")
            ELSE Stored(r.files, body)
        InCacheDir(body) ==
            IF c.dir THEN Stored(c, body)
            ELSE IF fail = "cacheDir" THEN Failed(c, "creating cache directory")
            ELSE Initialized(initOCILayout([c EXCEPT !.dir = TRUE], fail), body)
    IN  IF resp.err = "fetch" THEN Failed(c, "fetching mappings")
        ELSE IF resp.status # 200 THEN Failed(c, "unexpected status code")
        ELSE IF resp.err = "read" THEN Failed(c, "reading response body")
        ELSE InCacheDir(resp.body)

\* updateDatabaseFile(ctx, dbURL, userAgent) with the answer resp of the
\* server; fail is the step that fails, if any
updateDatabaseFile(c, resp, fail) ==
    LET Linked(files, hashString) ==
            IF fail = "symlink"
            THEN Failed([files EXCEPT !.dbLink = <<>>], "creating symlink")
            ELSE Succeeded([files EXCEPT !.dbLink = <<hashString>>])
        Existing(files, hashString) ==
            IF fail = "configDir" THEN Failed(files, "creating nested config directory")
            ELSE IF files.dbLink # <<hashString>>
            THEN Linked([files EXCEPT !.configDir = TRUE], hashString)
            ELSE Succeeded([files EXCEPT !.configDir = TRUE])
        Indexed(r, hashString) ==
            IF r.err # <<>> THEN Failed(r.files, "updating index.json")
            ELSE IF fail = "configDir"
            THEN Failed(r.files, "creating nested config directory")
            ELSE Linked([r.files EXCEPT !.configDir = TRUE], hashString)
        Saved(files, body) ==
            IF fail = "blobsDir" THEN Failed(files, "creating blobs directory")
            ELSE IF fail = "blobOpen"
            THEN Failed([files EXCEPT !.blobsDir = TRUE], "writing database file")
            ELSE IF fail = "blobWrite"
            THEN Failed([files EXCEPT !.blobsDir = TRUE, !.blobs = @ \cup {Sha256(body)}],
                        "writing database file")
            ELSE Indexed(updateIndexJSON([files EXCEPT !.blobsDir = TRUE,
                                                       !.blobs = @ \cup {Sha256(body)}],
                                         DigestString(body), Len(body), "db", fail),
                         Sha256(body))
        Stored(files, body) ==
            IF Sha256(body) \in files.blobs THEN Existing(files, Sha256(body))
            ELSE Saved(files, body)
        Initialized(r, body) ==
            IF r.err # <<>> THEN Failed(r.files, "initializing OCI layout")
            ELSE Stored(r.files, body)
        InCacheDir(body) ==
            IF c.dir THEN Stored(c, body)
            ELSE IF fail = "cacheDir" THEN Failed(c, "creating cache directory")
            ELSE Initialized(initOCILayout([c EXCEPT !.dir = TRUE], fail), body)
    IN  IF resp.err = "fetch" THEN Failed(c, "fetching database")
        ELSE IF resp.status # 200 THEN Failed(c, "unexpected status code")
        ELSE IF resp.err = "read" THEN Failed(c, "reading response body")
        ELSE InCacheDir(resp.body)

\* Update(ctx, opts) with the answers of the server for the YAML file and the
\* database; fail and dbFail are the steps that fail, if any, while the YAML
\* file and while the database is updated.  A database that cannot be
\* downloaded is generated from the YAML file (CreateDBFromYAML).
Update(c, useDB, resp, dbResp, fail, dbFail) ==
    LET Generated(files) ==
            IF dbFail = "yamlPath" THEN Failed(files, "getting YAML path")
            ELSE IF dbFail = "dbPath"
            THEN Failed([files EXCEPT !.configDir = TRUE], "getting DB path")
            ELSE IF dbFail = "createDB" THEN Succeeded([files EXCEPT !.configDir = TRUE])
            ELSE Succeeded([files EXCEPT !.configDir = TRUE, !.dbGenerated = TRUE])
        WithDatabase(r) == IF r.err # <<>> THEN Generated(r.files) ELSE r
        WithMappings(r) ==
            IF r.err # <<>> THEN Failed(r.files, "updating YAML mappings")
            ELSE IF useDB THEN WithDatabase(updateDatabaseFile(r.files, dbResp, dbFail))
            ELSE r
    IN  WithMappings(updateMappingsFile(c, resp, fail))

-----------------------------------------------------------------------------
(* The inputs of the model *)

\* number of lines of the first input text
MaxLines == 2

\* number of times the output is parsed and converted (the first time included)
MaxRounds == 2

LinePool ==
    { <<>>,
      <<"#", " ", "c">>,
      <<"FROM", " ", "python", ":", "3", ".", "9">>,
      <<"FROM", " ", "python", " ", "AS", " ", "build">>,
      <<"FROM", " ", "build">>,
      <<"FROM", " ", "build", " ", "AS", " ", "build">>,
      <<"FROM", " ", "scratch">>,
      <<"FROM", " ", "$", "BASE">>,
      <<"FROM", " ", "ubuntu", ":", "22", ".", "04">>,
      <<"FROM", " ", "python", ":", "latest">>,
      <<"FROM", " ", "chainguard", "-", "base">>,
      <<"FROM", " ", "python", ":", "$", "TAG">>,
      <<"FROM", " ", "-", "-", "platform", "=", "linux", "/", "amd64", " ", "python", ":",
        "3", ".", "9">>,
      <<"FROM", " ", "golang", ":", "1", ".", "23", "-", "dev">>,
      <<"FROM", " ", "python", ":", "3", ".", "9", "-", "slim", "@", "sha256", ":",
        "123456abcdef">>,
      <<"ARG", " ", "BASE", "=", "python", ":", "3", ".", "9">>,
      <<"RUN", " ", "useradd", " ", "x">>,
      <<"RUN", " ", "apt", "-", "get", " ", "install", " ", "-", "y", " ", "nginx", " ",
        "nginx", " ", "curl", " ", "curl">>,
      <<"RUN", " ", "echo", " ", "hello", ";", " ", "apt", "-", "get", " ", "install", " ",
        "-", "y", " ", "curl", " ", "&&", " ", "echo", " ", "goodbye">>,
      <<"RUN", " ", "apt", "-", "get", " ", "install", " ", "-", "y", " ", "shadow">>,
      <<"RUN", " ", "apt", "-", "get", " ", "install", " ", "-", "y", " ", "shadow", " ",
        "&&", " ", "useradd", " ", "-", "r", " ", "-", "s", " ", "/", "bin", "/", "bash", " ",
        "nonroot">>,
      <<"RUN", " ", "apt", "-", "get", " ", "update", " ", "&&", " ", "apt", "-", "get", " ",
        "install", " ", "-", "y", " ", "nginx", " ", "&&", " ", "yum", " ", "install", " ",
        "php">>,
      <<"RUN", " ", "apt", "-", "get", " ", "install", " ", "-", "y", " ", "nginx", " ", "&&",
        " ", "yum", " ", "install", " ", "php", " ", "&&", " ", "useradd", " ", "x">>,
      <<"RUN", " ", "a", " ", "\\">>,
      <<"COPY", " ", ".", " ", ".">>,
      <<"USER", " ", "nonroot">> }

\* the texts of at most n lines of the pool
RECURSIVE Texts(_)
Texts(n) ==
    IF n = 0 THEN {<<>>}
    ELSE LinePool \cup {t \o <<"\n">> \o l : t \in Texts(n - 1) \ {<<>>}, l \in LinePool}
                  \cup Texts(n - 1)

\* longer texts: an ARG that is the base of a stage with a RUN, a stage
\* with a RUN that ends in a USER directive for another user than root, an
\* ARG declared twice, an ARG that is a part of the base of a stage, and a
\* stage with a USER directive before its RUN
LongTexts ==
    { <<"ARG", " ", "BASE", "=", "python", ":", "3", ".", "9", "\n",
        "FROM", " ", "$", "BASE", "\n",
        "RUN", " ", "useradd", " ", "x">>,
      <<"FROM", " ", "python", ":", "3", ".", "9", "\n",
        "RUN", " ", "useradd", " ", "x", "\n",
        "USER", " ", "nonroot">>,
      <<"ARG", " ", "BASE", "=", "python", ":", "3", ".", "9", "\n",
        "ARG", " ", "BASE", "=", "python", ":", "3", ".", "9", "\n",
        "FROM", " ", "$", "BASE">>,
      <<"ARG", " ", "BASE", "=", "python", ":", "3", ".", "9", "\n",
        "FROM", " ", "$", "BASE", "/", "app">>,
      <<"FROM", " ", "python", ":", "3", ".", "9", "\n",
        "USER", " ", "app", "\n",
        "RUN", " ", "useradd", " ", "x">> }

BuiltinCatalog ==
    [Images |-> << << <<"ubuntu">>, DefaultChainguardBase \o <<":", "latest">> >> >>,
     Packages |-> { << <<"debian">>, <<"abc">>, << <<"xyz">>, <<"lmnop">> >> >> },
     Fails |-> "none"]

FailingCatalog == [Images |-> <<>>, Packages |-> {}, Fails |-> "all"]

\* extra mappings with two patterns that match python and an entry for one
\* of its Docker Hub names
WildcardMappings ==
    [Images |-> << << <<"python", "*">>, <<"first">> >>,
                   << <<"*", "python">>, <<"second">> >>,
                   << <<"docker", ".", "io", "/", "library", "/", "python">>,
                      <<"exact">> >> >>,
     Packages |-> {}]

DefaultOptions ==
    [Organization |-> <<>>, Registry |-> <<>>, ExtraMappings |-> EmptyMappings,
     NoBuiltIn |-> FALSE, FromLineConverter |-> <<>>, MappingProvider |-> <<>>]

\* the Options and the built-in database of a run
Environments ==
    { [opts |-> DefaultOptions, embeddedDB |-> <<BuiltinCatalog>>],
      [opts |-> DefaultOptions, embeddedDB |-> <<>>],
      [opts |-> [DefaultOptions EXCEPT !.Organization = <<"acme">>],
       embeddedDB |-> <<BuiltinCatalog>>],
      [opts |-> [DefaultOptions EXCEPT !.Organization = <<"acme">>,
                                       !.Registry = <<"r", ".", "io">>],
       embeddedDB |-> <<BuiltinCatalog>>],
      [opts |-> [DefaultOptions EXCEPT !.MappingProvider = <<<<FailingCatalog>>>>],
       embeddedDB |-> <<BuiltinCatalog>>],
      [opts |-> [DefaultOptions EXCEPT !.NoBuiltIn = TRUE], embeddedDB |-> <<BuiltinCatalog>>],
      [opts |-> [DefaultOptions EXCEPT !.ExtraMappings = WildcardMappings],
       embeddedDB |-> <<BuiltinCatalog>>] }
    \cup {[opts |-> [DefaultOptions EXCEPT !.FromLineConverter = <<hook>>],
           embeddedDB |-> <<BuiltinCatalog>>] : hook \in {"own", "fail", "empty"}}

-----------------------------------------------------------------------------
(* The driver: parse, print, convert, print, and the same on the output *)

Init ==
    /\ pc = "start"
    /\ content \in Texts(MaxLines) \cup LongTexts
    /\ \E e \in Environments : opts = e.opts /\ embeddedDB = e.embeddedDB
    /\ dockerfile = <<>>
    /\ parsed = <<>>
    /\ printed = <<>>
    /\ converted = <<>>
    /\ convErr = <<>>
    /\ lookupErrs = 0
    /\ result = <<>>
    /\ prevResult = <<>>
    /\ round = 1
    /\ callArgs = <<>>
    /\ callResults = <<>>
    /\ cache = NoFiles

\* dockerfile, err := ParseDockerfile(ctx, content)
Parse ==
    /\ pc = "start"
    /\ dockerfile' = ParseDockerfile(content)
    /\ parsed' = dockerfile'
    /\ pc' = "parsed"
    /\ UNCHANGED <<content, opts, embeddedDB, printed, converted, convErr, lookupErrs, result,
                   prevResult, round, callArgs, callResults, cache>>

\* dockerfile.String()
String ==
    /\ pc = "parsed"
    /\ printed' = DockerfileString(dockerfile)
    /\ pc' = "printed"
    /\ UNCHANGED <<content, opts, embeddedDB, dockerfile, parsed, converted, convErr,
                   lookupErrs, result, prevResult, round, callArgs, callResults, cache>>

\* converted, err := dockerfile.Convert(ctx, opts); the ranges over the map of
\* the extra mappings visit its entries in one of the orders Go may take
ConvertStep ==
    LET ConvertReturns(c) ==
            /\ converted' = c.out
            /\ convErr' = c.err
            /\ lookupErrs' = c.errs
            /\ dockerfile' = c.receiver
            /\ pc' = IF c.err = <<>> THEN "converted" ELSE "failed"
            /\ UNCHANGED <<content, opts, embeddedDB, parsed, printed, result, prevResult,
                           round, callArgs, callResults, cache>>
    IN  /\ pc = "printed"
        /\ \E images \in RangeOrders(opts.ExtraMappings.Images) :
              ConvertReturns(Convert(dockerfile,
                                     [opts EXCEPT !.ExtraMappings.Images = images],
                                     embeddedDB))

\* converted.String()
StringConverted ==
    /\ pc = "converted"
    /\ result' = DockerfileString(converted[1])
    /\ pc' = "done"
    /\ UNCHANGED <<content, opts, embeddedDB, dockerfile, parsed, printed, converted, convErr,
                   lookupErrs, prevResult, round, callArgs, callResults, cache>>

\* the output is the input of the next round, with the same options
Again ==
    /\ pc = "done"
    /\ round < MaxRounds
    /\ content' = result
    /\ prevResult' = result
    /\ round' = round + 1
    /\ pc' = "start"
    /\ dockerfile' = <<>>
    /\ parsed' = <<>>
    /\ printed' = <<>>
    /\ converted' = <<>>
    /\ convErr' = <<>>
    /\ lookupErrs' = 0
    /\ result' = <<>>
    /\ UNCHANGED <<opts, embeddedDB, callArgs, callResults, cache>>

Next == Parse \/ String \/ ConvertStep \/ StringConverted \/ Again

Spec == Init /\ [][Next]_vars

-----------------------------------------------------------------------------
(* The tag functions called on their own *)

\* number of dotted parts of a tag
MaxParts == 3

\* number of successive calls of a function on its own result
MaxCalls == 2

\* the parts of a tag: numbers, with a leading zero or a sign, and words
PartPool == {<<"1">>, <<"04">>, <<"22">>, <<"x">>, <<"latest">>, <<"+", "2">>}

\* the tags of at most n parts
RECURSIVE DottedTags(_)
DottedTags(n) ==
    IF n = 1 THEN PartPool
    ELSE DottedTags(n - 1) \cup {t \o <<".">> \o p : t \in DottedTags(n - 1), p \in PartPool}

\* no tag, tags that refer to a variable, and versions with or without a
\* leading v and a suffix
TagPool ==
    {<<>>, <<"$", "TAG">>, <<"$", "TAG", "-", "dev">>}
    \cup {v \o t \o s : v \in {<<>>, <<"v">>}, t \in DottedTags(MaxParts),
                         s \in {<<>>, <<"-", "slim">>, <<"-", "dev">>}}

BaseFilenamePool == {<<"python">>, <<"jdk">>, <<"jre">>, DefaultChainguardBase}

\* the driver at rest while a function is called on its own
DriverIdle ==
    /\ pc = "idle"
    /\ content = <<>>
    /\ opts = DefaultOptions
    /\ embeddedDB = <<>>
    /\ dockerfile = <<>>
    /\ parsed = <<>>
    /\ printed = <<>>
    /\ converted = <<>>
    /\ convErr = <<>>
    /\ lookupErrs = 0
    /\ result = <<>>
    /\ prevResult = <<>>
    /\ round = 0

driverVars == <<pc, content, opts, embeddedDB, dockerfile, parsed, printed, converted, convErr,
                lookupErrs, result, prevResult, round>>

TagInit ==
    /\ DriverIdle
    /\ callArgs \in [tag : TagPool]
                    \cup [baseFilename : BaseFilenamePool, tag : TagPool,
                          needsDevSuffix : BOOLEAN]
    /\ callResults = <<>>
    /\ cache = NoFiles

\* convertImageTag(tag, isDynamicTag)
ConvertImageTag ==
    /\ DOMAIN callArgs = {"tag"}
    /\ callResults = <<>>
    /\ callResults' = <<convertImageTag(callArgs.tag)>>
    /\ UNCHANGED <<driverVars, callArgs, cache>>

\* calculateConvertedTag(baseFilename, tag, isDynamicTag, needsDevSuffix), on
\* the tag of the source and then on the tag it returned
CalculateConvertedTag ==
    LET Calculate(tag) ==
            calculateConvertedTag(callArgs.baseFilename, tag, Contains(tag, <<"$">>),
                                  callArgs.needsDevSuffix)
    IN  /\ "baseFilename" \in DOMAIN callArgs
        /\ Len(callResults) < MaxCalls
        /\ callResults' = Append(callResults,
                                 Calculate(IF callResults = <<>> THEN callArgs.tag
                                           ELSE callResults[Len(callResults)]))
        /\ UNCHANGED <<driverVars, callArgs, cache>>

TagNext == ConvertImageTag \/ CalculateConvertedTag

TagSpec == TagInit /\ [][TagNext]_vars

-----------------------------------------------------------------------------
(* GetImageMapping of an in-memory provider called on its own *)

\* entries of the mappings: the patterns and the Docker Hub name of
\* WildcardMappings, and python itself
ImageEntryPool ==
    WildcardMappings.Images \o << << <<"python">>, <<"base">> >> >>

RECURSIVE SubSeqsOf(_)
SubSeqsOf(seq) ==
    LET WithHead(rest) == rest \cup {<<Head(seq)>> \o s : s \in rest}
    IN  IF seq = <<>> THEN {<<>>} ELSE WithHead(SubSeqsOf(Tail(seq)))

MappingsPool == {[Images |-> images, Packages |-> {}] : images \in SubSeqsOf(ImageEntryPool)}

\* python under its Docker Hub names, and an image no entry is for
SourceImagePool ==
    {generateDockerHubVariants(<<"python">>)[k] :
        k \in 1..Len(generateDockerHubVariants(<<"python">>))}
    \cup {<<"golang">>}

LookupInit ==
    /\ DriverIdle
    /\ callArgs \in [mappings : MappingsPool, sourceImage : SourceImagePool]
    /\ callResults = <<>>
    /\ cache = NoFiles

\* p.GetImageMapping(ctx, sourceImage) on the provider of the mappings, its
\* range over the map in one of the orders Go may take
LookUpImage ==
    LET Provider(images) ==
            <<NewInMemoryMappingProvider([callArgs.mappings EXCEPT !.Images = images])>>
    IN  /\ Len(callResults) < MaxCalls
        /\ \E images \in RangeOrders(callArgs.mappings.Images) :
              callResults' = Append(callResults,
                                    GetImageMapping(Provider(images), callArgs.sourceImage))
        /\ UNCHANGED <<driverVars, callArgs, cache>>

LookupNext == LookUpImage

LookupSpec == LookupInit /\ [][LookupNext]_vars

-----------------------------------------------------------------------------
(* The mappings update: Update and updateIndexJSON called one after another *)
(* on the files of one machine, which has none of them at first            *)

\* the number of calls
MaxUpdates == 3

\* the mappings files the server may hold
BodyPool == {<<"a">>, <<"b", "c">>}

\* the database files the server may hold
DbBodyPool == {<<"d">>}

\* the steps of an update that may fail
FailPoints ==
    {"none", "cacheDir", "initBlobsDir", "initLayout", "initIndexOpen", "initIndexWrite",
     "blobsDir", "blobOpen", "blobWrite", "indexRead", "indexOpen", "indexTruncate",
     "indexWrite", "configDir", "symlink"}

\* the steps of generating the database that may fail
GenerateFailPoints == {"none", "yamlPath", "dbPath", "createDB"}

\* the answers of a server that holds one of the bodies, each with the step
\* of the update that fails: no step is reached without a body
Downloads(bodies, failPoints) ==
    {<<Response("fetch", 0, <<>>), "none">>, <<Response("", 404, <<>>), "none">>,
     <<Response("read", 200, <<>>), "none">>}
    \cup {<<Response("", 200, body), fail>> : body \in bodies, fail \in failPoints}

\* the sizes and file types updateIndexJSON is called with on its own
SizePool == {1, 2}

FileTypePool == {"yaml", "db", "bin"}

UpdateInit ==
    /\ DriverIdle
    /\ callArgs = [op |-> "none"]
    /\ callResults = <<>>
    /\ cache = NoFiles

\* updateIndexJSON(cacheDir, digest, size, fileType)
UpdateIndexJSON ==
    LET Returns(digest, size, fileType, r) ==
            /\ cache' = r.files
            /\ callArgs' = [op |-> "updateIndexJSON", digest |-> digest, size |-> size,
                            fileType |-> fileType]
            /\ callResults' = Append(callResults, r.err)
            /\ UNCHANGED driverVars
    IN  /\ Len(callResults) < MaxUpdates
        /\ \E body \in BodyPool, size \in SizePool, fileType \in FileTypePool,
              fail \in {"none", "indexRead", "indexOpen", "indexTruncate", "indexWrite"} :
              Returns(DigestString(body), size, fileType,
                      updateIndexJSON(cache, DigestString(body), size, fileType, fail))

\* Update(ctx, opts); the database is asked for only when the mappings file
\* was updated
UpdateStep ==
    LET Returns(useDB, r) ==
            /\ cache' = r.files
            /\ callArgs' = [op |-> "Update", useDB |-> useDB]
            /\ callResults' = Append(callResults, r.err)
            /\ UNCHANGED driverVars
        DbDownloads(useDB, r) ==
            IF useDB /\ r.err = <<>>
            THEN Downloads(DbBodyPool, FailPoints)
                 \cup {<<Response("", 404, <<>>), fail>> : fail \in GenerateFailPoints}
            ELSE {<<Response("", 404, <<>>), "none">>}
    IN  /\ Len(callResults) < MaxUpdates
        /\ \E useDB \in BOOLEAN, download \in Downloads(BodyPool, FailPoints) :
              \E dbDownload \in DbDownloads(useDB,
                                            updateMappingsFile(cache, download[1],
                                                               download[2])) :
                  Returns(useDB, Update(cache, useDB, download[1], dbDownload[1],
                                        download[2], dbDownload[2]))

UpdateNext == UpdateIndexJSON \/ UpdateStep

UpdateSpec == UpdateInit /\ [][UpdateNext]_vars

-----------------------------------------------------------------------------
(* Vocabulary of the properties *)

\* the lines Convert returned
ConvertedLines == converted[1]

\* number of places where sub occurs in s
Occurrences(s, sub) ==
    Cardinality({i \in 1..(Len(s) - Len(sub) + 1) : SubSeq(s, i, i + Len(sub) - 1) = sub})

UserRoot == DirectiveUser \o <<" ", "root">>

\* a command of a package manager that holds the manager's install keyword
IsInstallPart(part) ==
    /\ PackageManagerInfoMap(part.Command).Distro # <<>>
    /\ SeqContains(part.Args, PackageManagerInfoMap(part.Command).InstallKeyword)

\* a command of a package manager
IsManagerPart(part) == PackageManagerInfoMap(part.Command).Distro # <<>>

\* the parts of the shell command of a RUN line
PartsOf(line) == line.Run[1].Shell[1].Before[1].Parts

\* a RUN line with a package-manager install command
HasInstall(line) ==
    line.Run # NoRun /\ \E k \in 1..Len(PartsOf(line)) : IsInstallPart(PartsOf(line)[k])

SamePart(a, b) ==
    a.Command = b.Command /\ a.Args = b.Args /\ a.Delimiter = b.Delimiter

\* a FROM line that Convert must leave alone
IsKeptFrom(line) ==
    /\ line.From # NoFrom
    /\ \/ line.From[1].Base = <<"scratch">>
       \/ line.From[1].BaseDynamic
       \/ line.From[1].Parent > 0

\* a USER directive that names root
NamesRoot(line) ==
    /\ HasPrefix(ToUpper(TrimSpace(line.Raw)), DirectiveUser \o <<" ">>)
    /\ ToLower(TrimSpace(SubSeq(TrimSpace(line.Raw), Len(DirectiveUser) + 2,
                                Len(TrimSpace(line.Raw))))) = <<"root">>

\* the text of a line in the output of String
Serialized(lines, i) == LineString(lines[i], i = Len(lines))

-----------------------------------------------------------------------------
(* Properties *)

\* C1: printing the parsed text without converting it gives the text back, up
\* to one trailing newline that may be left out; this is claimed for every
\* text, with comment or blank lines inside a continued instruction and with
\* a backslash at the end of the text.
C1_RoundTrip ==
    pc = "printed" => (printed = content \/ printed \o <<"\n">> = content)

\* C2: with a provider that maps nothing, converting the output of a
\* conversion again gives the same text.
C2_Idempotent ==
    (pc = "done" /\ round > 1 /\ opts.NoBuiltIn /\ opts.MappingProvider = <<>>)
        => result = prevResult

C4_InputUntouched ==
    pc \in {"converted", "failed"} => dockerfile = parsed

\* C5: Convert returns the lines of its input in their order, each with its
\* Raw, Extra and Stage; a line that is no FROM, no RUN and no ARG used as a
\* base image has an empty Converted and is printed as it was.
C5_LinesKept ==
    pc = "converted" =>
        /\ Len(ConvertedLines) = Len(parsed)
        /\ \A i \in 1..Len(parsed) :
              /\ ConvertedLines[i].Raw = parsed[i].Raw
              /\ ConvertedLines[i].Extra = parsed[i].Extra
              /\ ConvertedLines[i].Stage = parsed[i].Stage
              /\ (/\ parsed[i].From = NoFrom
                  /\ parsed[i].Run = NoRun
                  /\ ~(dockerfile[i].Arg # NoArg /\ dockerfile[i].Arg[1].UsedAsBase))
                 => /\ ConvertedLines[i].Converted = <<>>
                    /\ Serialized(ConvertedLines, i) = Serialized(parsed, i)

\* C5, a state where it matters: Convert rewrote a line and returned it next
\* to a line of another kind
C5_Witness ==
    /\ pc = "converted"
    /\ \E i, j \in 1..Len(ConvertedLines) :
          /\ ConvertedLines[i].Converted # <<>>
          /\ parsed[j].From = NoFrom /\ parsed[j].Run = NoRun /\ parsed[j].Arg = NoArg
          /\ parsed[j].Raw # <<>>
          /\ ConvertedLines[j].Raw = parsed[j].Raw

\* C6: a FROM whose base is scratch, holds a "$" or names an earlier stage is
\* left alone: its Converted is empty (no image, no USER root) and it is
\* printed as its Raw text.
C6_KeptFromUnconverted ==
    pc = "converted" =>
        \A i \in 1..Len(parsed) :
            IsKeptFrom(parsed[i]) =>
                /\ ConvertedLines[i].Converted = <<>>
                /\ Serialized(ConvertedLines, i) = Serialized(parsed, i)

\* C6, a state where it matters: FROM scratch in a stage with a converted RUN
C6_Witness ==
    /\ pc = "converted"
    /\ \E i, j \in 1..Len(parsed) :
          /\ parsed[i].From # NoFrom
          /\ parsed[i].From[1].Base = <<"scratch">>
          /\ ConvertedLines[j].Stage = parsed[i].Stage
          /\ ConvertedLines[j].Run # NoRun
          /\ ConvertedLines[j].Converted # <<>>

\* C7: a RUN with a package-manager install command is rewritten to one
\* apk add -U command with the packages sorted and without duplicates; the
\* install of nginx nginx curl curl becomes apk add -U curl nginx.
C7_ApkAddSortedUnique ==
    pc = "converted" =>
        \A i \in 1..Len(parsed) :
            /\ HasInstall(parsed[i]) =>
                  Contains(ConvertedLines[i].Converted,
                           <<"apk", " ", "add", " ", "-", "U">>)
            /\ parsed[i].Raw = <<"RUN", " ", "apt", "-", "get", " ", "install", " ", "-",
                                 "y", " ", "nginx", " ", "nginx", " ", "curl", " ", "curl">>
               => ConvertedLines[i].Converted =
                     <<"RUN", " ", "apk", " ", "add", " ", "-", "U", " ", "curl", " ",
                       "nginx">>

\* first and last command of the run of package-manager commands of a RUN
FirstManagerPart(parts) == MinOrZero({k \in 1..Len(parts) : IsManagerPart(parts[k])})

LastManagerPart(parts) ==
    CHOOSE l \in FirstManagerPart(parts)..Len(parts) :
        /\ \A k \in FirstManagerPart(parts)..l : IsManagerPart(parts[k])
        /\ l = Len(parts) \/ ~IsManagerPart(parts[l + 1])

\* C8: in a converted RUN the commands before the first and after the last
\* package-manager command are kept with command, arguments and delimiter,
\* and apk add has the delimiter of the last command it replaces.
C8_OuterCommandsKept ==
    pc = "converted" =>
        \A i \in 1..Len(parsed) :
            HasInstall(parsed[i]) =>
                /\ ConvertedLines[i].Run # NoRun
                /\ LET ps == PartsOf(parsed[i])
                       cs == PartsOf(ConvertedLines[i])
                       f == FirstManagerPart(ps)
                       l == LastManagerPart(ps)
                   IN  /\ Len(cs) = Len(ps) - (l - f)
                       /\ \A k \in 1..(f - 1) : SamePart(cs[k], ps[k])
                       /\ cs[f].Command = <<"apk">>
                       /\ cs[f].Delimiter = ps[l].Delimiter
                       /\ \A k \in (l + 1)..Len(ps) : SamePart(cs[k - (l - f)], ps[k])

\* C9: USER root is put after the reference of a FROM exactly when the FROM
\* was converted, its stage has a converted RUN and no USER line of the stage
\* names root; a converted FROM followed by a RUN that installs packages gives
\* an output with exactly one USER root, and so does converting that output.
C9_UserRootExactlyWhen ==
    /\ pc = "converted" =>
          \A i \in 1..Len(parsed) :
              parsed[i].From # NoFrom =>
                  (HasSuffix(ConvertedLines[i].Converted, <<"\n">> \o UserRoot)
                   <=> /\ ConvertedLines[i].Converted # <<>>
                       /\ \E j \in 1..Len(parsed) :
                             /\ parsed[j].Stage = parsed[i].Stage
                             /\ ConvertedLines[j].Run # NoRun
                             /\ ConvertedLines[j].Converted # <<>>
                       /\ ~\E j \in 1..Len(parsed) :
                             parsed[j].Stage = parsed[i].Stage /\ NamesRoot(parsed[j]))
    /\ (pc = "done" /\ round = 1 /\ Len(parsed) = 2
        /\ parsed[1].From # NoFrom /\ ~IsKeptFrom(parsed[1]) /\ HasInstall(parsed[2]))
       => Occurrences(result, UserRoot) = 1
    /\ (pc = "done" /\ round > 1 /\ Occurrences(prevResult, UserRoot) = 1)
       => Occurrences(result, UserRoot) = 1

\* the prefix of a converted image: the registry, else cgr.dev and the
\* organization
ImagePrefix ==
    IF opts.Registry # <<>> THEN opts.Registry
    ELSE DefaultRegistryDomain \o <<"/">>
         \o (IF opts.Organization = <<>> THEN DefaultOrg ELSE opts.Organization)

\* the digest and the alias of a FROM as they follow the tag
DigestAndAlias(from) ==
    (IF from.Digest # <<>> THEN <<"@">> \o from.Digest ELSE <<>>)
    \o (IF from.Alias # <<>> THEN <<" ", "AS", " ">> \o from.Alias ELSE <<>>)

\* the text is FROM prefix/image:tag and the digest and alias of from
IsFromForm(text, from) ==
    LET head == DirectiveFrom \o <<" ">> \o ImagePrefix \o <<"/">>
        tail == DigestAndAlias(from)
        imageTag == SubSeq(text, Len(head) + 1, Len(text) - Len(tail))
    IN  /\ HasPrefix(text, head)
        /\ HasSuffix(text, tail)
        /\ Len(text) > Len(head) + Len(tail)
        /\ Len(Split(imageTag, <<":">>)) = 2
        /\ Split(imageTag, <<":">>)[1] # <<>>
        /\ Split(imageTag, <<":">>)[2] # <<>>
        /\ ~Contains(imageTag, <<"/">>)
        /\ ~Contains(imageTag, <<"@">>)
        /\ ~Contains(imageTag, <<" ">>)

\* C10: a converted FROM reads FROM prefix/image:tag, then the digest and the
\* alias of the source line, with one tag, also when the mapping target has a
\* tag of its own.
C10_ConvertedFromForm ==
    pc = "converted" =>
        \A i \in 1..Len(parsed) :
            (parsed[i].From # NoFrom /\ ConvertedLines[i].Converted # <<>>) =>
                IsFromForm(TrimSuffix(ConvertedLines[i].Converted, <<"\n">> \o UserRoot),
                           parsed[i].From[1])

\* the image reference of converted FROM line i: the converted text without
\* the USER root directive, the alias and the digest that follow the tag
ConvertedRef(i) ==
    TrimSuffix(TrimSuffix(ConvertedLines[i].Converted, <<"\n">> \o UserRoot),
               DigestAndAlias(parsed[i].From[1]))

\* the stage of line i has a RUN line
StageHasRun(i) ==
    \E j \in 1..Len(parsed) : parsed[j].Stage = parsed[i].Stage /\ parsed[j].Run # NoRun

DevSuffix == <<"-", "dev">>

C12_ChainguardBaseLatest ==
    pc = "converted" =>
        \A i \in 1..Len(parsed) :
            (/\ parsed[i].From # NoFrom
             /\ ConvertedLines[i].Converted # <<>>
             /\ HasPrefix(ConvertedRef(i),
                          ImagePrefix \o <<"/">> \o DefaultChainguardBase \o <<":">>))
                => ConvertedRef(i)
                   = ImagePrefix \o <<"/">> \o DefaultChainguardBase \o <<":", "latest">>

\* the digit words of the tags
DigitWords == {"1", "2", "4", "04", "22"}

\* a part that strconv.Atoi reads as a non-negative integer
IsNumber(part) == part \in {<<w>> : w \in DigitWords} \cup {<<"+", w>> : w \in DigitWords}

\* the integer of a part, printed
Canonical(part) ==
    LET w == part[Len(part)] IN IF w = "04" THEN <<"4">> ELSE <<w>>

\* the tag without the suffix that starts at its first "-" and without the
\* leading v that a digit follows
Stripped(tag) ==
    LET Cut(k) == IF k = 0 THEN tag ELSE SubSeq(tag, 1, k - 1)
        DropV(x) == IF Len(x) > 1 /\ x[1] = "v" /\ x[2] \in DigitWords THEN Tail(x) ELSE x
    IN  DropV(Cut(Index(tag, <<"-">>)))

\* convertImageTag was called on a static tag that is not empty
TruncatedStatic ==
    /\ DOMAIN callArgs = {"tag"}
    /\ callResults # <<>>
    /\ callArgs.tag # <<>>
    /\ ~Contains(callArgs.tag, <<"$">>)

\* C13 as the code has it: the suffix from the first "-" and a leading v
\* before a digit are dropped and the tag is split at "."; a tag of one part
\* that is an integer is kept; with two parts or more, the first two being
\* non-negative integers, the result is major.minor, whatever the later parts
\* are: the two-part tag as written, a longer one with both numbers printed
\* as integers; every other tag gives latest.
C13_FirstTwoPartsNumeric ==
    TruncatedStatic =>
        LET Expected(stripped, parts) ==
                IF Len(parts) = 1 /\ IsNumber(parts[1]) THEN stripped
                ELSE IF Len(parts) >= 2 /\ IsNumber(parts[1]) /\ IsNumber(parts[2])
                THEN IF Len(parts) = 2 THEN stripped
                     ELSE Canonical(parts[1]) \o <<".">> \o Canonical(parts[2])
                ELSE <<"latest">>
        IN  callResults[1]
            = Expected(Stripped(callArgs.tag), Split(Stripped(callArgs.tag), <<".">>))

\* v1.04.22-slim was truncated to 1.4
C13_Witness ==
    /\ TruncatedStatic
    /\ callArgs.tag = <<"v", "1", ".", "04", ".", "22", "-", "slim">>
    /\ callResults = << <<"1", ".", "4">> >>

\* C13 as it is claimed: the result is major.minor or the single integer when
\* all parts are non-negative integers, and latest otherwise.  Major and
\* minor may be kept as written or printed as integers.
C13_AllPartsNumeric ==
    TruncatedStatic =>
        LET Claimed(parts) ==
                IF \A k \in 1..Len(parts) : IsNumber(parts[k])
                THEN IF Len(parts) >= 2
                     THEN {parts[1] \o <<".">> \o parts[2],
                           Canonical(parts[1]) \o <<".">> \o Canonical(parts[2])}
                     ELSE {parts[1], Canonical(parts[1])}
                ELSE {<<"latest">>}
        IN  callResults[1] \in Claimed(Split(Stripped(callArgs.tag), <<".">>))

\* C14: a converted FROM whose source tag holds a "$" keeps that tag as it is
\* written, with -dev after it only when the stage has a RUN and the tag does
\* not end in -dev already.
C14_DynamicTagKept ==
    pc = "converted" =>
        \A i \in 1..Len(parsed) :
            (/\ parsed[i].From # NoFrom
             /\ parsed[i].From[1].TagDynamic
             /\ ConvertedLines[i].Converted # <<>>)
                => HasSuffix(ConvertedRef(i),
                             <<":">> \o parsed[i].From[1].Tag
                             \o (IF StageHasRun(i) /\ ~HasSuffix(parsed[i].From[1].Tag, DevSuffix)
                                 THEN DevSuffix ELSE <<>>))

\* C15: converting a converted tag changes nothing, for every tag, the empty
\* one included, every base filename, jdk and jre included, and with or
\* without the -dev suffix.
C15_TagConversionIdempotent ==
    ("baseFilename" \in DOMAIN callArgs /\ Len(callResults) = 2)
        => callResults[2] = callResults[1]

\* FROM line j has the ARG of line i as its base, as $NAME or ${NAME}
IsBaseOf(i, j) ==
    /\ parsed[j].From # NoFrom
    /\ parsed[j].From[1].Base \in {<<"$">> \o parsed[i].Arg[1].Name,
                                   <<"$", "{">> \o parsed[i].Arg[1].Name \o <<"}">>}

\* C16: the converted default of an ARG that is the base of a FROM ends in
\* -dev exactly when a stage whose FROM has the ARG as its base holds a RUN.
C16_ArgDevWhenStageRuns ==
    pc = "converted" =>
        \A i \in 1..Len(parsed) :
            (/\ parsed[i].Arg # NoArg
             /\ parsed[i].Arg[1].DefaultValue # <<>>
             /\ \E j \in 1..Len(parsed) : IsBaseOf(i, j))
                => /\ ConvertedLines[i].Converted # <<>>
                   /\ HasSuffix(ConvertedLines[i].Converted, DevSuffix)
                      <=> \E j \in 1..Len(parsed) : IsBaseOf(i, j) /\ StageHasRun(j)

\* a RUN of the stage of line i installs the package shadow
ShadowInstalled(i) ==
    \E j \in 1..Len(parsed) :
        /\ parsed[j].Stage = parsed[i].Stage
        /\ parsed[j].Run # NoRun
        /\ \E k \in 1..Len(PartsOf(parsed[j])) :
              /\ IsInstallPart(PartsOf(parsed[j])[k])
              /\ SeqContains(PartsOf(parsed[j])[k].Args, PackageShadow)

IsUserOrGroupAdd(part) == part.Command \in {CommandUserAdd, CommandGroupAdd}

\* C17: a useradd or groupadd of a RUN is kept as it is when shadow is among
\* the packages the stage installs, in the same RUN or in another one, before
\* or after it.
C17_ShadowKeepsUserAdd ==
    pc = "converted" =>
        \A i \in 1..Len(parsed) :
            (parsed[i].Run # NoRun /\ ShadowInstalled(i) /\ ConvertedLines[i].Converted # <<>>)
                => \A k \in 1..Len(PartsOf(parsed[i])) :
                       IsUserOrGroupAdd(PartsOf(parsed[i])[k])
                           => \E c \in 1..Len(PartsOf(ConvertedLines[i])) :
                                  SamePart(PartsOf(ConvertedLines[i])[c], PartsOf(parsed[i])[k])

\* a RUN line with package-manager commands of two families
HasTwoFamilies(line) ==
    /\ line.Run # NoRun
    /\ \E k, l \in 1..Len(PartsOf(line)) :
          /\ IsManagerPart(PartsOf(line)[k])
          /\ IsManagerPart(PartsOf(line)[l])
          /\ PackageManagerInfoMap(PartsOf(line)[k].Command).Distro
             # PackageManagerInfoMap(PartsOf(line)[l].Command).Distro

\* a RUN line with a command the busybox rewrite knows
HasBusyboxCommand(line) ==
    \E k \in 1..Len(PartsOf(line)) :
        PartsOf(line)[k].Command \in {CommandUserAdd, CommandGroupAdd, CommandGNUTar}

CatalogEntries ==
    {opts.ExtraMappings.Images[k] : k \in 1..Len(opts.ExtraMappings.Images)}
    \cup (IF opts.NoBuiltIn THEN {}
          ELSE UNION {{embeddedDB[c].Images[k] : k \in 1..Len(embeddedDB[c].Images)} :
                         c \in 1..Len(embeddedDB)})

\* the entries whose source is the base or one of its Docker Hub names
ExactEntries(base) ==
    {e \in CatalogEntries :
        \/ e[1] = base
        \/ \E k \in 1..Len(generateDockerHubVariants(base)) :
               e[1] = generateDockerHubVariants(base)[k]}

\* C19: the lookup of a FROM base tries the base, then each of its Docker Hub
\* names, and only then the patterns with "*", so that an entry for the base
\* or for one of its names wins over every pattern that matches.
C19_ExactBeforeWildcard ==
    (pc = "converted" /\ opts.MappingProvider = <<>>) =>
        \A i \in 1..Len(parsed) :
            (/\ parsed[i].From # NoFrom
             /\ ConvertedLines[i].Converted # <<>>
             /\ ExactEntries(parsed[i].From[1].Base) # {})
                => \E e \in ExactEntries(parsed[i].From[1].Base) :
                       HasPrefix(ConvertedRef(i), ImagePrefix \o <<"/">> \o e[2] \o <<":">>)

\* C20: for the same mappings and the same source image GetImageMapping
\* returns the same target on every call, also when several patterns of the
\* mappings match the image.
C20_LookupDeterministic ==
    Len(callResults) >= 2 => callResults[2] = callResults[1]

\* the converted text of FROM line i without the USER root directive
ConvertedFromText(i) == TrimSuffix(ConvertedLines[i].Converted, <<"\n">> \o UserRoot)

\* the AS clause of a FROM as the caller of the converter adds it
AliasClause(from) ==
    IF from.Alias # <<>> THEN <<" ">> \o KeywordAs \o <<" ">> \o from.Alias ELSE <<>>

\* C21: the reference a FromLineConverter returns without error replaces the
\* default reference and the caller adds the alias of the line after it; when
\* the converter fails or returns nothing the default reference stays, with
\* the alias.
C21_ConverterResultUsed ==
    (pc = "converted" /\ opts.FromLineConverter # <<>>) =>
        \A i \in 1..Len(parsed) :
            (parsed[i].From # NoFrom /\ ConvertedLines[i].Converted # <<>>) =>
                IF opts.FromLineConverter[1] = "own"
                THEN ConvertedFromText(i)
                     = <<"own", "/">> \o parsed[i].From[1].Base \o AliasClause(parsed[i].From[1])
                ELSE /\ HasPrefix(ConvertedFromText(i), ImagePrefix \o <<"/">>)
                     /\ HasSuffix(ConvertedFromText(i), DigestAndAlias(parsed[i].From[1]))

PlatformFlag == <<"-", "-", "platform", "=", "linux", "/", "amd64">>

\* C22: a FROM with a --platform flag before the image is converted like the
\* line without the flag, and the flag stays in front of the converted
\* reference.
C22_PlatformFlagKept ==
    pc = "converted" =>
        \A i \in 1..Len(parsed) :
            (/\ parsed[i].From # NoFrom
             /\ HasPrefix(TrimSpace(parsed[i].Raw),
                          DirectiveFrom \o <<" ">> \o PlatformFlag \o <<" ", "python", ":">>))
                => /\ ConvertedLines[i].Converted # <<>>
                   /\ \E tag \in {<<"3", ".", "9">>, <<"3", ".", "9", "-", "dev">>} :
                         HasSuffix(ConvertedFromText(i),
                                   PlatformFlag \o <<" ">> \o ImagePrefix
                                   \o <<"/", "python", ":">> \o tag)

\* a USER directive
IsUserLine(line) == HasPrefix(ToUpper(TrimSpace(line.Raw)), DirectiveUser \o <<" ">>)

\* C23: a stage with a converted FROM and a converted RUN whose USER
\* directives all name another user than root gets USER root right after its
\* FROM, and the USER directives stay as they are.
C23_UserRootDespiteNonroot ==
    pc = "converted" =>
        \A i \in 1..Len(parsed) :
            (/\ parsed[i].From # NoFrom
             /\ ConvertedLines[i].Converted # <<>>
             /\ \E j \in 1..Len(parsed) :
                   /\ parsed[j].Stage = parsed[i].Stage
                   /\ parsed[j].Run # NoRun
                   /\ ConvertedLines[j].Converted # <<>>
             /\ \E j \in 1..Len(parsed) :
                   parsed[j].Stage = parsed[i].Stage /\ IsUserLine(parsed[j])
             /\ \A j \in 1..Len(parsed) :
                   (parsed[j].Stage = parsed[i].Stage /\ IsUserLine(parsed[j]))
                       => ~NamesRoot(parsed[j]))
                => /\ HasSuffix(ConvertedLines[i].Converted, <<"\n">> \o UserRoot)
                   /\ \A j \in 1..Len(parsed) :
                         (parsed[j].Stage = parsed[i].Stage /\ IsUserLine(parsed[j]))
                             => /\ ConvertedLines[j].Converted = <<>>
                                /\ ConvertedLines[j].Raw = parsed[j].Raw

\* Convert is called with no source of mappings at all
NoMappings ==
    opts.NoBuiltIn /\ opts.ExtraMappings = EmptyMappings /\ opts.MappingProvider = <<>>

\* the text of line i in the converted Dockerfile
OutputText(i) ==
    IF ConvertedLines[i].Converted # <<>> THEN ConvertedLines[i].Converted
    ELSE ConvertedLines[i].Raw

EarlierStagesNamed(i) ==
    {parsed[j].Stage : j \in {k \in 1..(i - 1) :
                                 /\ parsed[k].From # NoFrom
                                 /\ parsed[k].From[1].Alias # <<>>
                                 /\ ToLower(parsed[k].From[1].Alias)
                                        = ToLower(parsed[i].From[1].Base)}}

\* C25: the Parent of a FROM is the stage of an earlier FROM whose alias is
\* its base, whatever the case of the letters, and 0 when there is none; so
\* it is less than the Stage of the line, and a FROM whose alias is its own
\* base has Parent 0 when no earlier stage has that alias.
C25_ParentIsEarlierStage ==
    pc # "start" =>
        \A i \in 1..Len(parsed) :
            parsed[i].From # NoFrom =>
                /\ parsed[i].From[1].Parent < parsed[i].Stage
                /\ IF EarlierStagesNamed(i) = {}
                   THEN parsed[i].From[1].Parent = 0
                   ELSE parsed[i].From[1].Parent \in EarlierStagesNamed(i)

\* the number of FROM lines among the first i lines
FromsUpTo(i) == Cardinality({j \in 1..i : parsed[j].From # NoFrom})

\* C26: the Stage of every parsed line is the number of FROM lines at or
\* before it, the last line with the trailing comments and blank lines
\* included; so the Stage never gets smaller from one line to the next.
C26_StageCountsFroms ==
    pc # "start" =>
        /\ \A i \in 1..Len(parsed) : parsed[i].Stage = FromsUpTo(i)
        /\ \A i \in 1..(Len(parsed) - 1) : parsed[i].Stage <= parsed[i + 1].Stage

\* the manifests of index.json in the files c, none when there is no file
ManifestsOf(c) == IF c.index = <<>> THEN <<>> ELSE c.index[1].Manifests

\* the manifests without those of the digest
WithoutDigest(manifests, digest) ==
    LET IsOther(manifest) == manifest.Digest # digest
    IN  SelectSeq(manifests, IsOther)

OnePerDigest(manifests) ==
    \A i, j \in 1..Len(manifests) : manifests[i].Digest = manifests[j].Digest => i = j

\* the last call returned no error
LastSucceeded == callResults # <<>> /\ callResults[Len(callResults)] = <<>>

\* C27: a call of updateIndexJSON for a digest that returns no error leaves
\* in index.json the manifests of the other digests, in the order they had,
\* and after them one manifest of the digest with the size of the call; so
\* index.json never holds two manifests of one digest.
C27_OneManifestPerDigest ==
    [][(/\ Len(callResults') = Len(callResults) + 1
        /\ callArgs'.op = "updateIndexJSON"
        /\ callResults'[Len(callResults')] = <<>>)
           => /\ cache'.index # <<>>
              /\ cache'.index[1].data = "json"
              /\ Len(ManifestsOf(cache')) = Len(WithoutDigest(ManifestsOf(cache),
                                                              callArgs'.digest)) + 1
              /\ SubSeq(ManifestsOf(cache'), 1, Len(ManifestsOf(cache')) - 1)
                    = WithoutDigest(ManifestsOf(cache), callArgs'.digest)
              /\ ManifestsOf(cache')[Len(ManifestsOf(cache'))].Digest = callArgs'.digest
              /\ ManifestsOf(cache')[Len(ManifestsOf(cache'))].Size = callArgs'.size
              /\ OnePerDigest(ManifestsOf(cache'))]_vars

\* three calls returned no error, the last one a call of updateIndexJSON for
\* a digest index.json held already, next to another one
C27_Witness ==
    /\ Len(callResults) = 3
    /\ \A k \in 1..3 : callResults[k] = <<>>
    /\ callArgs.op = "updateIndexJSON"
    /\ Len(ManifestsOf(cache)) = 2
    /\ ManifestsOf(cache)[2].Digest = callArgs.digest
    /\ ManifestsOf(cache)[2].Size = callArgs.size

\* C30: when the last update returned no error, the symlink
\* builtin-mappings.yaml points to a blob that exists and index.json holds a
\* manifest with the digest of that blob.
C30_LinkedBlobIndexed ==
    (callArgs.op = "Update" /\ LastSucceeded) =>
        /\ cache.yamlLink # <<>>
        /\ cache.yamlLink[1] \in cache.blobs
        /\ \E i \in 1..Len(ManifestsOf(cache)) :
              ManifestsOf(cache)[i].Digest = <<"sha256", ":">> \o cache.yamlLink[1]

\* the variable of the ARG of line i occurs in the base of the FROM of line j
IsInBaseOf(i, j) ==
    /\ parsed[j].From # NoFrom
    /\ \/ Contains(parsed[j].From[1].Base, <<"$">> \o parsed[i].Arg[1].Name)
       \/ Contains(parsed[j].From[1].Base, <<"$", "{">> \o parsed[i].Arg[1].Name \o <<"}">>)

\* C28: every ARG line whose variable occurs in the base of a FROM is marked
\* UsedAsBase, and with a default value its converted text is ARG, the name
\* and = followed by a reference; this holds for each ARG line of a name
\* declared more than once and for a variable that is only a part of the base.
C28_ArgsInBaseMarked ==
    pc = "converted" =>
        \A i \in 1..Len(parsed) :
            (/\ parsed[i].Arg # NoArg
             /\ parsed[i].Arg[1].Name # <<>>
             /\ \E j \in 1..Len(parsed) : IsInBaseOf(i, j))
                => /\ dockerfile[i].Arg[1].UsedAsBase
                   /\ parsed[i].Arg[1].DefaultValue # <<>> =>
                         /\ HasPrefix(ConvertedLines[i].Converted,
                                      DirectiveArg \o <<" ">> \o parsed[i].Arg[1].Name
                                          \o <<"=">>)
                         /\ Len(ConvertedLines[i].Converted)
                               > Len(parsed[i].Arg[1].Name) + 3

\* the USER directives between the FROM of line i and line j
UserLinesBetween(i, j) == {k \in (i + 1)..(j - 1) : IsUserLine(parsed[k])}

\* C29: in the output, the last USER directive between the converted FROM
\* of a stage and a converted RUN of the stage is USER root: the one after
\* the FROM when the stage has no USER directive before the RUN, a directive
\* of the stage that names root otherwise.
C29_ConvertedRunAsRoot ==
    pc = "converted" =>
        \A i, j \in 1..Len(parsed) :
            (/\ i < j
             /\ parsed[i].From # NoFrom
             /\ ConvertedLines[i].Converted # <<>>
             /\ parsed[j].Stage = parsed[i].Stage
             /\ parsed[j].Run # NoRun
             /\ ConvertedLines[j].Converted # <<>>)
                => IF UserLinesBetween(i, j) = {}
                   THEN HasSuffix(ConvertedLines[i].Converted, <<"\n">> \o UserRoot)
                   ELSE \A k \in UserLinesBetween(i, j) :
                            (\A l \in UserLinesBetween(i, j) : l <= k)
                                => NamesRoot(parsed[k])

====
